---- MODULE Spec2Model ----
(***************************************************************************)
(* Hybrid retrieval-and-citation engine of the construction-document QA    *)
(* service: reranker, hybrid merger, context builder, answer synthesizer.  *)
(* Each component is a pure function of its inputs; a specification draws  *)
(* the inputs in its Init and its actions apply the component.             *)
(***************************************************************************)
EXTENDS Integers, Sequences, FiniteSets, TLC

VARIABLES
    \* ---- reranker (search/reranker.py) ----
    rr_pc,        \* "idle" | "call" | "returned"
    rr_n,         \* len(docs)
    rr_provider,  \* settings.RERANK_PROVIDER
    rr_has_key,   \* settings.COHERE_API_KEY is set
    rr_resp,      \* the relevance model's call: [raises, results (the indices returned)]
    rr_order,     \* the list rerank returned
    \* ---- hybrid merger (search/hybrid.py, search/table_search.py) ----
    mg_pc,        \* "idle" | "call" | "merged"
    mg_bm25,      \* lexical hit list
    mg_knn,       \* vector hit list
    mg_size,      \* size argument of _merge_table_results
    mg_chunks,    \* merged list returned by run_hybrid_search
    mg_rows,      \* list returned by _merge_table_results
    \* ---- context builder (qa/synth.py) ----
    cx_pc,        \* "idle" | "call" | "built"
    cx_chunks,    \* the candidate chunk list passed to build_context
    cx_tiktoken,  \* tiktoken.get_encoding succeeds
    cx_ctx,       \* the returned context string: [sections, limit]
    cx_selected,  \* the returned selected_chunks
    cx_tokens,    \* current_tokens when the loop ended (token path)
    \* ---- QA pipeline (qa/qa_service.py) ----
    qa_pc,        \* position of the handler; "done" | "raised" | "error" end it
    qa_stream,    \* the handler is answer_question_stream
    qa_suggest,   \* enable_smart_suggestions
    qa_naga,      \* get_chat_client() is a NagaChat
    qa_bm25,      \* outcome of the lexical branch of the running hybrid search
    qa_knn,       \* outcome of the vector branch of the running hybrid search
    qa_hits,      \* hits returned by run_hybrid_search
    qa_table,     \* table_chunks: the rows of run_table_hybrid_search as chunks
    qa_items,     \* chunks built from the reranked all_items
    qa_selected,  \* the EvidenceSet: selected of build_context
    qa_raw,       \* the generation output
    qa_result,    \* the returned dict / the done event, and the path that made it
    qa_events,    \* types of the events the stream has yielded
    \* ---- filter builder (search/hybrid.py) ----
    bf_pc,        \* "idle" | "call" | "returned"
    bf_filters,   \* the filters argument: [present, items (key, value pairs)]
    bf_clauses,   \* the clause list build_filters returned
    \* ---- query suggestions (search/query_suggestions.py) ----
    sg_pc,        \* "idle" | "start" | "testing" | "returned"
    sg_proposed,  \* what the suggestion model did: [n phrasings proposed, failed]
    sg_todo,      \* phrasings the loop has still to test
    sg_tested,    \* phrasings tested so far, each with what its pipeline run did
    sg_working,   \* working_suggestions
    \* _trim_to_sentence_boundary called on its own
    tr_pc,        \* "start" before the call, "done" after it
    tr_text,      \* argument text
    tr_max,       \* argument max_chars
    tr_out,       \* the returned text
    \* the streaming reader of answer_question_stream
    sr_pc,        \* "reading" inside the for loop, "read" after it
    sr_steps,     \* deltas received so far
    sr_acc,       \* accumulated_text, as a sequence of symbols
    sr_last,      \* last_answer_length
    sr_extracted, \* len(extracted_answer), -1 while no match was found
    sr_chunks,    \* len(content) of every chunk event yielded, in order
    \* a request and the calls nested in it
    nq_stack,     \* the call stack: handler and suggestion-engine frames
    nq_engine,    \* find_working_suggestions invocations of the request
    nq_runs,      \* qa_function calls made by the engine
    nq_tested,    \* what each nested run did, in order
    nq_out,       \* how the request ended, "" while it runs
    \* guess_toc_ranges called on its own
    rt_pc,        \* "call" before the call, "returned" after it
    rt_query,     \* argument query
    rt_rows,      \* the toc_entries rows of the project
    rt_db_ok,     \* the database can be reached and queried
    rt_lookups,   \* SELECTs executed
    rt_out,       \* the returned ranges
    \* run_vector_search called on its own
    vs_pc,        \* "call" before the call, then "returned" or "raised"
    vs_qvec,      \* argument query_vector
    vs_size,      \* argument size
    vs_index,     \* the documents of the index, in the engine's order
    vs_knn_ok,    \* the engine answers the k-NN query
    vs_fetch_ok,  \* the engine answers the fallback query
    vs_fetched,   \* the hits of the fallback query, as received
    vs_out,       \* the returned hits
    \* one call of embed_batch or chat
    rc_client,    \* "embed" (EmbedderNaga), "naga" (NagaChat) or "cohere" (CohereChat)
    rc_retry,     \* argument retry
    rc_sleep,     \* argument sleep
    rc_pc,        \* "loop", "sleeping" inside time.sleep, "returned" or "raised"
    rc_attempt,   \* the loop variable attempt
    rc_log,       \* the POSTs (with their outcome) and the sleeps (with their delay) so far
    rc_last_error,\* last_error, "" for None
    rc_raised,    \* the exception leaving the call, NoError if none
    \* one ingestion job: the background task and a client polling its status
    ig_vision,    \* settings.USE_VISION_LLM
    ig_unstructured,\* settings.USE_UNSTRUCTURED
    ig_at,        \* where the task stands: "program", a handler label, or "done"
    ig_k,         \* the next operation of the try body while ig_at = "program"
    ig_status,    \* progress.status
    ig_progress,  \* progress.progress, in hundredths
    ig_error,     \* progress.error, "None" for None
    ig_hist,      \* the values progress.status has taken, in order
    ig_calls,     \* the steps that returned normally
    ig_raised,    \* the steps that raised
    ig_empty,     \* chunk_pages returned no chunk
    ig_rd,        \* get_ingestion_status under way: the fields read so far
    ig_snap,      \* the last response of get_ingestion_status, NoSnap before the first
    \* the partial-fit branch of build_context, step by step
    al_pc,        \* "trim" before the first trim, "loop" at the while test, "exit" after it
    al_text,      \* the text of the chunk that fits only in part
    al_remaining, \* remaining
    al_trimmed,   \* trimmed
    al_iters      \* iterations of the while loop made

rrVars == <<rr_pc, rr_n, rr_provider, rr_has_key, rr_resp, rr_order>>
mgVars == <<mg_pc, mg_bm25, mg_knn, mg_size, mg_chunks, mg_rows>>
cxVars == <<cx_pc, cx_chunks, cx_tiktoken, cx_ctx, cx_selected, cx_tokens>>
qaVars == <<qa_pc, qa_stream, qa_suggest, qa_naga, qa_bm25, qa_knn, qa_hits, qa_table,
            qa_items, qa_selected, qa_raw, qa_result, qa_events>>
bfVars == <<bf_pc, bf_filters, bf_clauses>>
sgVars == <<sg_pc, sg_proposed, sg_todo, sg_tested, sg_working>>
trVars == <<tr_pc, tr_text, tr_max, tr_out>>
srVars == <<sr_pc, sr_steps, sr_acc, sr_last, sr_extracted, sr_chunks>>
nqVars == <<nq_stack, nq_engine, nq_runs, nq_tested, nq_out>>
rtVars == <<rt_pc, rt_query, rt_rows, rt_db_ok, rt_lookups, rt_out>>
vsVars == <<vs_pc, vs_qvec, vs_size, vs_index, vs_knn_ok, vs_fetch_ok, vs_fetched, vs_out>>
rcVars == <<rc_client, rc_retry, rc_sleep, rc_pc, rc_attempt, rc_log, rc_last_error, rc_raised>>
igVars == <<ig_vision, ig_unstructured, ig_at, ig_k, ig_status, ig_progress, ig_error, ig_hist, ig_calls, ig_raised, ig_empty, ig_rd, ig_snap>>
alVars == <<al_pc, al_text, al_remaining, al_trimmed, al_iters>>
vars == <<rrVars, mgVars, cxVars, qaVars, bfVars, sgVars, trVars, srVars, nqVars, rtVars, vsVars, rcVars, igVars, alVars>>

\* The variables of the other components, which a component's step leaves alone.
NotRerank == <<mgVars, cxVars, qaVars, bfVars, sgVars, trVars, srVars, nqVars, rtVars, vsVars, rcVars, igVars, alVars>>
NotMerge == <<rrVars, cxVars, qaVars, bfVars, sgVars, trVars, srVars, nqVars, rtVars, vsVars, rcVars, igVars, alVars>>
NotCtx == <<rrVars, mgVars, qaVars, bfVars, sgVars, trVars, srVars, nqVars, rtVars, vsVars, rcVars, igVars, alVars>>
NotQa == <<rrVars, mgVars, cxVars, bfVars, sgVars, trVars, srVars, nqVars, rtVars, vsVars, rcVars, igVars, alVars>>
NotFilters == <<rrVars, mgVars, cxVars, qaVars, sgVars, trVars, srVars, nqVars, rtVars, vsVars, rcVars, igVars, alVars>>
NotSuggest == <<rrVars, mgVars, cxVars, qaVars, bfVars, trVars, srVars, nqVars, rtVars, vsVars, rcVars, igVars, alVars>>
NotTrim == <<rrVars, mgVars, cxVars, qaVars, bfVars, sgVars, srVars, nqVars, rtVars, vsVars, rcVars, igVars, alVars>>
NotReader == <<rrVars, mgVars, cxVars, qaVars, bfVars, sgVars, trVars, nqVars, rtVars, vsVars, rcVars, igVars, alVars>>
NotNest == <<rrVars, mgVars, cxVars, qaVars, bfVars, sgVars, trVars, srVars, rtVars, vsVars, rcVars, igVars, alVars>>
NotRouter == <<rrVars, mgVars, cxVars, qaVars, bfVars, sgVars, trVars, srVars, nqVars, vsVars, rcVars, igVars, alVars>>
NotVector == <<rrVars, mgVars, cxVars, qaVars, bfVars, sgVars, trVars, srVars, nqVars, rtVars, rcVars, igVars, alVars>>
NotRetry == <<rrVars, mgVars, cxVars, qaVars, bfVars, sgVars, trVars, srVars, nqVars, rtVars, vsVars, igVars, alVars>>
NotIngest == <<rrVars, mgVars, cxVars, qaVars, bfVars, sgVars, trVars, srVars, nqVars, rtVars, vsVars, rcVars, alVars>>
NotAdjust == <<rrVars, mgVars, cxVars, qaVars, bfVars, sgVars, trVars, srVars, nqVars, rtVars, vsVars, rcVars, igVars>>

\* ------------------------------------------------------------------ helpers

SeqsUpTo(S, n) == UNION {[1..k -> S] : k \in 0..n}

Range(s) == {s[i] : i \in 1..Len(s)}

Max2(a, b) == IF a >= b THEN a ELSE b

Min2(a, b) == IF a <= b THEN a ELSE b

\* Python list(range(n)), as a sequence of 0-based indices.
RangeList(n) == [i \in 1..n |-> i - 1]

\* Python [x for x in s if Keep(x)].
RECURSIVE FilterSeq(_, _)
FilterSeq(s, keep) ==
    IF s = <<>> THEN <<>>
    ELSE IF Head(s) \in keep THEN <<Head(s)>> \o FilterSeq(Tail(s), keep)
         ELSE FilterSeq(Tail(s), keep)

\* ------------------------------------------------------------------ bounds

MaxDocs == 3

MaxHits == 2

MaxSize == 2

MaxChunks == 3

MaxLong == 11

\* ================================================================ reranker

\* What the relevance model's call can do: raise (HTTP error, timeout, malformed
\* body), or return at most top_n = n results, each naming a document index.
RerankResponses(n) ==
    [raises : {FALSE}, results : SeqsUpTo(0..(n - 1), n)]
        \cup {[raises |-> TRUE, results |-> <<>>]}

\* cohere_rerank's safety net without the membership test: appends every index.
cohere_rerank_AppendAll(n, has_key, resp) ==
    IF ~has_key THEN [raised |-> FALSE, order |-> RangeList(n)]
    ELSE IF resp.raises THEN [raised |-> TRUE, order |-> <<>>]
    ELSE [raised |-> FALSE, order |-> resp.results \o RangeList(n)]

\* cohere_rerank(query, docs): the order of the model's result indices, then
\* every index of range(len(docs)) that the model did not return.
cohere_rerank(n, has_key, resp) ==
    IF ~has_key THEN [raised |-> FALSE, order |-> RangeList(n)]
    ELSE IF resp.raises THEN [raised |-> TRUE, order |-> <<>>]
    ELSE LET order == resp.results
             seen == Range(order)
         IN  [raised |-> FALSE,
              order |-> order \o FilterSeq(RangeList(n), (0..(n - 1)) \ seen)]

\* rerank whose except branch returns what cohere_rerank had built.
rerank_NoFallback(n, provider, has_key, resp) ==
    IF provider = "cohere"
    THEN cohere_rerank(n, has_key, resp).order
    ELSE RangeList(n)

\* rerank(query, docs): provider dispatch; any exception gives the original order.
rerank(n, provider, has_key, resp) ==
    IF provider = "cohere"
    THEN LET r == cohere_rerank(n, has_key, resp)
         IN  IF r.raised THEN RangeList(n) ELSE r.order
    ELSE RangeList(n)

RerankIdle ==
    /\ rr_pc = "idle" /\ rr_n = 0 /\ rr_provider = "none"
    /\ rr_has_key = FALSE /\ rr_resp = [raises |-> TRUE, results |-> <<>>]
    /\ rr_order = <<>>

RerankInit ==
    /\ rr_pc = "call"
    /\ rr_n \in 0..MaxDocs
    /\ rr_provider \in {"cohere", "none"}
    /\ rr_has_key \in BOOLEAN
    /\ rr_resp \in RerankResponses(rr_n)
    /\ rr_order = <<>>

RerankCall ==
    /\ rr_pc = "call"
    /\ rr_order' = rerank(rr_n, rr_provider, rr_has_key, rr_resp)
    /\ rr_pc' = "returned"
    /\ UNCHANGED <<rr_n, rr_provider, rr_has_key, rr_resp>>

\* =========================================================== hybrid merger

HitIds == {"a", "b", "c"}

Scores == 0..2

\* A search hit: identifier (chunk_id / row_id), engine score, and the branch
\* that produced it (match_type of a table row).
Hits(tag) == [id : HitIds, score : Scores, match_type : {tag}]

\* Index of the entry with identifier id in the ordered dict d, 0 when absent.
DictPos(d, id) ==
    LET P == {i \in 1..Len(d) : d[i].id = id}
    IN  IF P = {} THEN 0 ELSE CHOOSE i \in P : TRUE

\* Python's stable sort by score, reverse=True: equal scores keep their order.
RECURSIVE InsertDesc(_, _)
InsertDesc(sorted, h) ==
    IF sorted = <<>> THEN <<h>>
    ELSE IF Head(sorted).score >= h.score
         THEN <<Head(sorted)>> \o InsertDesc(Tail(sorted), h)
         ELSE <<h>> \o sorted

RECURSIVE SortDesc(_)
SortDesc(s) ==
    IF s = <<>> THEN <<>>
    ELSE InsertDesc(SortDesc(SubSeq(s, 1, Len(s) - 1)), s[Len(s)])

\* One iteration of run_hybrid_search's loop that replaces on >= instead of >.
RECURSIVE HybridSeen_KeepLast(_, _)
HybridSeen_KeepLast(seen, hits) ==
    IF hits = <<>> THEN seen
    ELSE LET h == Head(hits)
             p == DictPos(seen, h.id)
         IN  HybridSeen_KeepLast(
                 IF p = 0 THEN Append(seen, h) ELSE [seen EXCEPT ![p] = h],
                 Tail(hits))

\* run_hybrid_search's loop over bm25_hits + knn_hits: seen[chunk_id] keeps the
\* first hit of an identifier unless a later one has a strictly higher score.
RECURSIVE HybridSeen(_, _)
HybridSeen(seen, hits) ==
    IF hits = <<>> THEN seen
    ELSE LET h == Head(hits)
             p == DictPos(seen, h.id)
         IN  HybridSeen(
                 IF p = 0 THEN Append(seen, h)
                 ELSE IF h.score > seen[p].score THEN [seen EXCEPT ![p] = h]
                 ELSE seen,
                 Tail(hits))

\* The merge of run_hybrid_search: list(seen.values()) sorted by score descending.
MergeHybrid(bm25_hits, knn_hits) == SortDesc(HybridSeen(<<>>, bm25_hits \o knn_hits))

\* _merge_table_results, first loop (bm25_hits).
RECURSIVE TableBm25Loop(_, _)
TableBm25Loop(d, hits) ==
    IF hits = <<>> THEN d
    ELSE LET h == Head(hits)
             p == DictPos(d, h.id)
         IN  TableBm25Loop(
                 IF p = 0 THEN Append(d, h)
                 ELSE IF h.score > d[p].score THEN [d EXCEPT ![p] = h]
                 ELSE d,
                 Tail(hits))

\* _merge_table_results, second loop (knn_hits): an identifier already present
\* with a score at least as high is tagged "hybrid".
RECURSIVE TableKnnLoop(_, _)
TableKnnLoop(d, hits) ==
    IF hits = <<>> THEN d
    ELSE LET h == Head(hits)
             p == DictPos(d, h.id)
         IN  TableKnnLoop(
                 IF p = 0 THEN Append(d, h)
                 ELSE IF h.score > d[p].score THEN [d EXCEPT ![p] = h]
                 ELSE [d EXCEPT ![p].match_type = "hybrid"],
                 Tail(hits))

\* _merge_table_results without the [:size] slice.
_merge_table_results_NoSlice(bm25_hits, knn_hits, size) ==
    SortDesc(TableKnnLoop(TableBm25Loop(<<>>, bm25_hits), knn_hits))

\* _merge_table_results(bm25_hits, knn_hits, size).
_merge_table_results(bm25_hits, knn_hits, size) ==
    LET results == SortDesc(TableKnnLoop(TableBm25Loop(<<>>, bm25_hits), knn_hits))
    IN  SubSeq(results, 1, Min2(size, Len(results)))

MergeIdle ==
    /\ mg_pc = "idle" /\ mg_bm25 = <<>> /\ mg_knn = <<>> /\ mg_size = 0
    /\ mg_chunks = <<>> /\ mg_rows = <<>>

MergeInit ==
    /\ mg_pc = "call"
    /\ mg_bm25 \in SeqsUpTo(Hits("bm25"), MaxHits)
    /\ mg_knn \in SeqsUpTo(Hits("knn"), MaxHits)
    /\ mg_size \in 1..MaxSize
    /\ mg_chunks = <<>>
    /\ mg_rows = <<>>

\* run_hybrid_search after both futures returned, and run_table_hybrid_search's
\* call of _merge_table_results, on the same pair of hit lists.
MergeCall ==
    /\ mg_pc = "call"
    /\ mg_chunks' = MergeHybrid(mg_bm25, mg_knn)
    /\ mg_rows' = _merge_table_results(mg_bm25, mg_knn, mg_size)
    /\ mg_pc' = "merged"
    /\ UNCHANGED <<mg_bm25, mg_knn, mg_size>>

\* ========================================================= context builder

MAX_CONTEXT_TOKENS == 8000

RESERVED_TOKENS == 500

CeilDiv(a, b) == (a + b - 1) \div b

SetMax(S) == CHOOSE x \in S : \A y \in S : y <= x

\* Decimal digits of a positive integer below 1000.
Digits(k) == IF k < 10 THEN 1 ELSE IF k < 100 THEN 2 ELSE 3

\* A chunk text, by what the builder reads of it: n characters (a trailing
\* ellipsis marker not counted; ell says whether one follows), the 0-based
\* positions dots of a sentence terminator ('.', '!' or '?') followed by a
\* space, the positions stops of a terminator followed by anything else (a
\* newline, a letter, the end of the text), and its token
\* profile: the first head characters encode to hnum tokens per hden
\* characters, the rest to tnum tokens per tden characters.
PlainText(n, dots) ==
    [n |-> n, head |-> 0, hnum |-> 1, hden |-> 1, tnum |-> 1, tden |-> 4,
     dots |-> dots, stops |-> {}, ell |-> FALSE]

\* A text opening with head characters of a script that costs 3 tokens per
\* character, followed by plain prose.
DenseHeadText(n, head) ==
    [n |-> n, head |-> head, hnum |-> 3, hden |-> 1, tnum |-> 1, tden |-> 4,
     dots |-> {}, stops |-> {}, ell |-> FALSE]

\* A text opening with long whitespace runs (1 token per 80 characters)
\* followed by characters that cost 3 tokens each.
SparseHeadText(n, head) ==
    [n |-> n, head |-> head, hnum |-> 1, hden |-> 80, tnum |-> 3, tden |-> 1,
     dots |-> {}, stops |-> {}, ell |-> FALSE]

\* A plain text with terminators followed by a space at dots and terminators
\* followed by something else at stops.
PunctText(n, dots, stops) == [PlainText(n, dots) EXCEPT !.stops = stops]

\* len(text)
TextLen(t) == t.n + (IF t.ell THEN 1 ELSE 0)

\* len(tokenizer.encode(text)) for the cl100k_base encoding.
Tokens(t) ==
    LET h == Min2(t.n, t.head)
    IN  CeilDiv(h * t.hnum, t.hden) + CeilDiv((t.n - h) * t.tnum, t.tden)
            + (IF t.ell THEN 1 ELSE 0)

\* text[:m] for m >= 0.  A terminator whose space is cut off ends the slice.
Slice(t, m) ==
    IF m >= TextLen(t) THEN t
    ELSE [t EXCEPT !.n = m, !.ell = FALSE,
                   !.dots = {p \in t.dots : p + 2 <= m},
                   !.stops = {p \in t.stops : p + 1 <= m}
                                 \cup {p \in t.dots : p + 1 = m}]

\* The largest power of two not above v, for v >= 1.
RECURSIVE Pow2Below(_, _)
Pow2Below(v, k) == IF 2 * k <= v THEN Pow2Below(v, 2 * k) ELSE k

\* max_chars * 0.7 in double precision is below the exact product: 0.7 is
\* stored as a double slightly less than 7/10, and the product of a multiple
\* of ten rounds down when the exact result lies in the upper quarter of its
\* binade.
ProductRoundsDown(max_chars) ==
    /\ max_chars > 0
    /\ max_chars % 10 = 0
    /\ LET v == (7 * max_chars) \div 10 IN 4 * v > 7 * Pow2Below(v, 1)

\* last_period > max_chars * 0.7
Above70(last_period, max_chars) ==
    IF ProductRoundsDown(max_chars) THEN 10 * last_period >= 7 * max_chars
    ELSE 10 * last_period > 7 * max_chars

\* _trim_to_sentence_boundary that always cuts at the last boundary found.
_trim_to_sentence_boundary_AnyBoundary(text, max_chars) ==
    IF TextLen(text) <= max_chars THEN text
    ELSE LET truncated == Slice(text, max_chars)
         IN  IF truncated.dots # {} THEN Slice(text, SetMax(truncated.dots) + 1)
             ELSE [truncated EXCEPT !.ell = TRUE]

\* _trim_to_sentence_boundary(text, max_chars)
_trim_to_sentence_boundary(text, max_chars) ==
    IF TextLen(text) <= max_chars THEN text
    ELSE LET truncated == Slice(text, max_chars)
             last_period == IF truncated.dots = {} THEN -1 ELSE SetMax(truncated.dots)
         IN  IF Above70(last_period, max_chars)
             THEN Slice(text, last_period + 1)
             ELSE [truncated EXCEPT !.ell = TRUE]

\* Chunk fields the builder reads.  bbox is <<>> when absent (None).
NoBbox == <<>>

DocIdLen(doc_id) == IF doc_id = "dlong" THEN 54 ELSE 12

\* len(bbox_str): " bbox=[x0,y0,x1,y1]" with each coordinate printed as %.1f.
BboxStrLen(bbox) ==
    IF Len(bbox) = 4
    THEN 11 + Digits(bbox[1]) + Digits(bbox[2]) + Digits(bbox[3]) + Digits(bbox[4]) + 8
    ELSE 0

\* len(header) without the newline: "[i] doc_id=.. page=.. source=text conf=None"
\* plus bbox_str.
HeaderLen(i, c) ==
    Digits(i) + DocIdLen(c.doc_id) + Digits(c.page_number) + 38 + BboxStrLen(c.bbox)

\* len(tokenizer.encode(header)), header ending in "\n".
HeaderTokens(i, c) == CeilDiv(HeaderLen(i, c) + 1, 3)

\* _dedupe_and_limit without the (doc_id, page_number) test.
RECURSIVE DedupeLoop_NoPageCheck(_, _, _, _, _)
DedupeLoop_NoPageCheck(chunks, seen_chunks, seen_pages, out, max_items) ==
    IF chunks = <<>> \/ (out # <<>> /\ Len(out) >= max_items) THEN out
    ELSE LET c == Head(chunks)
         IN  IF c.chunk_id \in seen_chunks
             THEN DedupeLoop_NoPageCheck(Tail(chunks), seen_chunks, seen_pages, out, max_items)
             ELSE DedupeLoop_NoPageCheck(Tail(chunks), seen_chunks \cup {c.chunk_id},
                                         seen_pages, Append(out, c), max_items)

\* The loop of _dedupe_and_limit: skip a chunk_id already seen, then a
\* (doc_id, page_number) already seen; stop once out holds max_items chunks.
RECURSIVE DedupeLoop(_, _, _, _, _)
DedupeLoop(chunks, seen_chunks, seen_pages, out, max_items) ==
    IF chunks = <<>> \/ (out # <<>> /\ Len(out) >= max_items) THEN out
    ELSE LET c == Head(chunks)
             key == <<c.doc_id, c.page_number>>
         IN  IF c.chunk_id \in seen_chunks
             THEN DedupeLoop(Tail(chunks), seen_chunks, seen_pages, out, max_items)
             ELSE IF key \in seen_pages
             THEN DedupeLoop(Tail(chunks), seen_chunks \cup {c.chunk_id},
                             seen_pages, out, max_items)
             ELSE DedupeLoop(Tail(chunks), seen_chunks \cup {c.chunk_id},
                             seen_pages \cup {key}, Append(out, c), max_items)

\* _dedupe_and_limit(chunks, max_items)
_dedupe_and_limit(chunks, max_items) == DedupeLoop(chunks, {}, {}, <<>>, max_items)

\* The adjustment loop of build_context's partial-fit branch.
RECURSIVE AdjustLoop(_, _)
AdjustLoop(trimmed, remaining) ==
    IF Tokens(trimmed) > remaining /\ TextLen(trimmed) > 100
    THEN AdjustLoop(_trim_to_sentence_boundary(trimmed, TextLen(trimmed) - 100), remaining)
    ELSE trimmed

\* One section of the context string: the chunk, its header and the text put
\* after the header.
Section(i, c, text) ==
    [chunk_id |-> c.chunk_id, hlen |-> HeaderLen(i, c) + 1,
     htokens |-> HeaderTokens(i, c), text |-> text]

\* The for loop of build_context over candidates[i..], acc = [selected,
\* sections, current_tokens].
RECURSIVE BuildLoop(_, _, _)
BuildLoop(candidates, i, acc) ==
    IF i > Len(candidates) THEN acc
    ELSE
    LET c == candidates[i]
        available_tokens == MAX_CONTEXT_TOKENS - RESERVED_TOKENS
        header_tokens == HeaderTokens(i, c)
        text == c.text
        text_tokens == Tokens(text)
        total_tokens == header_tokens + text_tokens + 2
    IN  IF acc.current_tokens + total_tokens <= available_tokens
        THEN BuildLoop(candidates, i + 1,
                 [selected |-> Append(acc.selected, c),
                  sections |-> Append(acc.sections, Section(i, c, text)),
                  current_tokens |-> acc.current_tokens + total_tokens])
        ELSE IF acc.current_tokens + header_tokens + 100 <= available_tokens
        THEN LET remaining == available_tokens - acc.current_tokens - header_tokens - 2
                 estimated_chars ==
                     IF text_tokens > 0 THEN (remaining * TextLen(text)) \div text_tokens
                     ELSE remaining * 4
                 trimmed == AdjustLoop(_trim_to_sentence_boundary(text, estimated_chars),
                                       remaining)
                 trimmed_tokens == Tokens(trimmed)
             IN  IF trimmed_tokens >= 50
                 THEN [selected |-> Append(acc.selected, c),
                       sections |-> Append(acc.sections, Section(i, c, trimmed)),
                       current_tokens |->
                           acc.current_tokens + header_tokens + trimmed_tokens + 2]
                 ELSE acc
        ELSE acc

\* The sections of _build_context_char_based: every selected chunk, its text
\* trimmed to 1000 characters.
CharSections(selected) ==
    [i \in 1..Len(selected) |->
        Section(i, selected[i],
                IF TextLen(selected[i].text) > 1000
                THEN _trim_to_sentence_boundary(selected[i].text, 1000)
                ELSE selected[i].text)]

\* len("\n\n".join(sections))
RECURSIVE JoinedLen(_)
JoinedLen(sections) ==
    IF sections = <<>> THEN 0
    ELSE sections[1].hlen + TextLen(sections[1].text)
             + (IF Len(sections) > 1 THEN 2 + JoinedLen(Tail(sections)) ELSE 0)

\* _build_context_char_based(chunks): ctx is cut to 10000 characters (limit),
\* limit = -1 when it is not cut.
_build_context_char_based(chunks) ==
    LET selected == _dedupe_and_limit(chunks, 10)
        sections == CharSections(selected)
    IN  [ctx |-> [sections |-> sections,
                  limit |-> IF JoinedLen(sections) > 10000 THEN 10000 ELSE -1],
         selected |-> selected,
         current_tokens |-> 0]

\* build_context(chunks): (ctx, selected), and current_tokens at the loop's end.
build_context(chunks, tiktoken_ok) ==
    IF ~tiktoken_ok THEN _build_context_char_based(chunks)
    ELSE LET candidates == _dedupe_and_limit(chunks, 15)
             acc == BuildLoop(candidates, 1,
                        [selected |-> <<>>, sections |-> <<>>, current_tokens |-> 0])
         IN  [ctx |-> [sections |-> acc.sections, limit |-> -1],
              selected |-> acc.selected,
              current_tokens |-> acc.current_tokens]

Bbox1 == <<10, 20, 100, 200>>

Bbox2 == <<36, 72, 540, 700>>

Chunk(id, doc, page, bbox, text) ==
    [chunk_id |-> id, doc_id |-> doc, page_number |-> page, bbox |-> bbox, text |-> text]

\* The indexed chunks a candidate list is drawn from (a chunk_id names one
\* chunk): two long prose chunks, a chunk opening with 100 characters of a
\* 3-token-per-character script, a second chunk of page (d1, 1), a chunk with
\* sentence boundaries, a chunk of whitespace runs followed by dense text, and
\* a short chunk.
ChunkPool ==
    { Chunk(1, "d1", 1, Bbox1, PlainText(14600, {})),
      Chunk(2, "d1", 2, Bbox2, PlainText(14600, {7000, 14000})),
      Chunk(3, "d2", 1, Bbox1, DenseHeadText(9776, 100)),
      Chunk(4, "d1", 1, NoBbox, PlainText(400, {120})),
      Chunk(5, "d2", 2, Bbox2, PlainText(30000, {900, 20000, 29000})),
      Chunk(6, "d2", 3, Bbox1, SparseHeadText(103000, 3000)),
      Chunk(7, "d3", 1, NoBbox, PlainText(120, {})) }

\* n chunks of n distinct pages of one document, 1200 characters each.
LongList(n, doc) ==
    [i \in 1..n |-> Chunk(100 + i, doc, i, Bbox1, PlainText(1200, {}))]

CtxIdle ==
    /\ cx_pc = "idle" /\ cx_chunks = <<>> /\ cx_tiktoken = TRUE
    /\ cx_ctx = [sections |-> <<>>, limit |-> -1] /\ cx_selected = <<>> /\ cx_tokens = 0

CtxInit ==
    /\ cx_pc = "call"
    /\ cx_chunks \in SeqsUpTo(ChunkPool, MaxChunks)
           \cup {LongList(n, doc) : n \in (MaxChunks + 1)..MaxLong, doc \in {"d1", "dlong"}}
    /\ cx_tiktoken \in BOOLEAN
    /\ cx_ctx = [sections |-> <<>>, limit |-> -1]
    /\ cx_selected = <<>>
    /\ cx_tokens = 0

\* build_context(chunks)
CtxCall ==
    /\ cx_pc = "call"
    /\ LET r == build_context(cx_chunks, cx_tiktoken)
       IN  /\ cx_ctx' = r.ctx
           /\ cx_selected' = r.selected
           /\ cx_tokens' = r.current_tokens
    /\ cx_pc' = "built"
    /\ UNCHANGED <<cx_chunks, cx_tiktoken>>

\* ============================================================= QA pipeline

NOT_FOUND == "Not found in the project documents."

SEE_CITED == "See cited excerpts."

\* An answer that is not the not-found sentence but passes
\* .lower().startswith("not found").
NOT_FOUND_VARIANT == "NOT FOUND on sheet A-201, see the general notes."

POSITIVE == "The corridor wall is a 1 h assembly."

\* A JSON value of the answer key that is not a string (number, null, list).
NonString == "<non-string>"

\* The parsed object has no answer key.
Missing == "<missing>"

\* data.get("answer", "")
GetAnswer(data) == IF data.answer = Missing THEN "" ELSE data.answer

\* The generation output when it is a bare JSON object, as a string.
JSON_TEXT == "{...}"

\* Text before the first "{" when the generation output wraps its JSON in prose
\* or a code fence.
PROSE == "Here is the JSON you asked for:"

AnswerTexts == {NOT_FOUND, NOT_FOUND_VARIANT, POSITIVE, ""}

\* s.lower().startswith("not found")
StartsNotFound(s) == s \in {NOT_FOUND, NOT_FOUND_VARIANT}

ZeroBbox == <<0, 0, 0, 0>>

\* A non-degenerate rectangle invented by the generation model.
ModelBbox == <<1, 2, 3, 4>>

\* A citations element that is not a JSON object (a string).
NonDictCite ==
    [dict |-> FALSE, doc_id |-> "", page_number |-> 0, has_bbox |-> FALSE,
     bbox |-> <<>>, snippet |-> 0]

\* The citation objects a generation output can hold: has_bbox says whether the
\* bbox key is present, bbox = <<>> is null or absent, snippet is len(snippet).
Cites ==
    [dict : {TRUE}, doc_id : {"d1"}, page_number : {1, 2}, has_bbox : {TRUE},
     bbox : {<<>>, ZeroBbox, ModelBbox}, snippet : {40, 300}]
    \cup [dict : {TRUE}, doc_id : {"d1"}, page_number : {1, 2}, has_bbox : {FALSE},
          bbox : {<<>>}, snippet : {40, 300}]
    \cup {NonDictCite}

MaxCites == 1

MaxQaHits == 1

\* The generation output by what the parsers read of it.  wrap: "json" is a
\* bare JSON object, "prose" a JSON object inside other text, "text" no JSON
\* object at all (answer is then the text itself).  cit: the citations key is a
\* list, null, or missing.
RawOutputs ==
    [wrap : {"json", "prose"}, answer : AnswerTexts \cup {NonString, Missing},
     cit : {"list"}, citations : SeqsUpTo(Cites, MaxCites)]
    \cup [wrap : {"json", "prose"}, answer : AnswerTexts \cup {NonString, Missing},
          cit : {"null", "missing"}, citations : {<<>>}]
    \cup [wrap : {"text"}, answer : AnswerTexts, cit : {"missing"}, citations : {<<>>}]

NoRaw == [wrap |-> "none", answer |-> "", cit |-> "missing", citations |-> <<>>]

\* What find_working_suggestions can return.
SuggestionLists == {<<>>, <<"alt">>}

QaChunkIds == {1, 2}

QaRowIds == {3}

\* The documents of the chunk index (_source of a hit): a long chunk, a chunk
\* without bbox, and short chunks of one page each for every other chunk_id.
QaChunkDoc(id) ==
    IF id = 1
    THEN [chunk_id |-> 1, doc_id |-> "d1", page_number |-> 1, bbox |-> Bbox1,
          text |-> PlainText(16000, {})]
    ELSE IF id = 2
    THEN [chunk_id |-> 2, doc_id |-> "d1", page_number |-> 2, bbox |-> NoBbox,
          text |-> PlainText(300, {})]
    ELSE [chunk_id |-> id, doc_id |-> "d3", page_number |-> id, bbox |-> Bbox2,
          text |-> PlainText(40, {})]

\* The documents of the table-row index: one long table.
QaRowDoc(id) ==
    [row_id |-> id, doc_id |-> "d2", page_number |-> 1, bbox |-> Bbox2,
     table_text |-> PlainText(16000, {9000, 11000})]

BulkSize == 16

\* A vector search that returns BulkSize hits of as many chunks, equally scored.
BulkHits == [i \in 1..BulkSize |-> [id |-> 9 + i, score |-> 1, match_type |-> "knn"]]

\* A search branch's outcome: it raised, or it returned a hit list.
BranchOutcomes(tag, ids) ==
    [failed : {FALSE},
     hits : SeqsUpTo([id : ids, score : 1..2, match_type : {tag}], MaxQaHits)]
    \cup {[failed |-> TRUE, hits |-> <<>>]}

NoBranch == [failed |-> FALSE, hits |-> <<>>]

\* The row dict a table search branch builds from a hit: its _source, with
\* score and match_type.
TableRow(h) ==
    LET s == QaRowDoc(h.id)
    IN  [row_id |-> s.row_id, doc_id |-> s.doc_id, page_number |-> s.page_number,
         bbox |-> s.bbox, table_text |-> s.table_text,
         score |-> h.score, match_type |-> h.match_type]

\* convert_table_rows_to_chunks whose chunks carry no bbox.
convert_table_rows_to_chunks_NoBbox(table_rows) ==
    [i \in 1..Len(table_rows) |->
        Chunk(table_rows[i].row_id, table_rows[i].doc_id, table_rows[i].page_number,
              NoBbox, table_rows[i].table_text)]

\* convert_table_rows_to_chunks(table_rows)
convert_table_rows_to_chunks(table_rows) ==
    [i \in 1..Len(table_rows) |->
        Chunk(table_rows[i].row_id, table_rows[i].doc_id, table_rows[i].page_number,
              table_rows[i].bbox, table_rows[i].table_text)]

\* The chunk dict answer_question builds from a hit's _source.
HitChunk(h) ==
    LET s == QaChunkDoc(h.id)
    IN  Chunk(s.chunk_id, s.doc_id, s.page_number, s.bbox, s.text)

\* chunks: a hit (an item with _source) becomes a chunk dict, a table chunk
\* is taken as it is.
ItemChunks(items) ==
    [i \in 1..Len(items) |->
        IF "chunk_id" \in DOMAIN items[i] THEN items[i] ELSE HitChunk(items[i])]

\* The relevance model's responses tried for n candidates: all of them for a
\* short list, for a long one a failure, an empty result list and the last
\* candidate alone.
QaRerankResponses(n) ==
    IF n <= MaxDocs THEN RerankResponses(n)
    ELSE {[raises |-> TRUE, results |-> <<>>],
          [raises |-> FALSE, results |-> <<>>],
          [raises |-> FALSE, results |-> <<n - 1>>]}

\* to_citations(selected)
to_citations(selected) ==
    [i \in 1..Min2(3, Len(selected)) |->
        [dict |-> TRUE,
         doc_id |-> selected[i].doc_id,
         page_number |-> selected[i].page_number,
         has_bbox |-> TRUE,
         bbox |-> selected[i].bbox,
         snippet |-> Min2(TextLen(selected[i].text), 200)
                         + (IF TextLen(selected[i].text) > 200 THEN 1 ELSE 0)]]

\* Index of the first chunk of selected with the citation's doc_id and
\* page_number, 0 when there is none.
MatchIndex(cite, selected) ==
    LET M == {i \in 1..Len(selected) :
                 /\ selected[i].doc_id = cite.doc_id
                 /\ selected[i].page_number = cite.page_number}
    IN  IF M = {} THEN 0 ELSE CHOOSE i \in M : \A j \in M : i <= j

\* The bbox fix of answer_question that replaces only an absent bbox.
FixBbox_MissingOnly(cite, selected) ==
    LET m == MatchIndex(cite, selected)
    IN  IF m # 0 /\ cite.bbox = <<>>
        THEN [cite EXCEPT !.bbox = selected[m].bbox, !.has_bbox = TRUE]
        ELSE cite

\* The bbox fix of answer_question for one citation: at the first matching
\* chunk, a bbox that is falsy or [0, 0, 0, 0] becomes the chunk's bbox.
FixBbox(cite, selected) ==
    LET m == MatchIndex(cite, selected)
    IN  IF m # 0 /\ (cite.bbox = <<>> \/ cite.bbox = ZeroBbox)
        THEN [cite EXCEPT !.bbox = selected[m].bbox, !.has_bbox = TRUE]
        ELSE cite

\* snippet[:240] + "…" for a snippet longer than 240 characters.
TrimSnippet(c) == IF c.dict /\ c.snippet > 240 THEN [c EXCEPT !.snippet = 241] ELSE c

TrimSnippets(cites) == [i \in 1..Len(cites) |-> TrimSnippet(cites[i])]

Returned(answer, citations, suggestions) ==
    [ok |-> TRUE, answer |-> answer, citations |-> citations, suggestions |-> suggestions]

\* The body was left by an exception (or, on the regex path, fell through).
Abandoned == [ok |-> FALSE, answer |-> "", citations |-> <<>>, suggestions |-> <<>>]

\* ValidateAndRepair that keeps the model's citations under a not-found answer.
ValidateAndRepair_KeepCitations(data, selected, enable_smart_suggestions, found) ==
    IF data.cit # "list" THEN Abandoned
    ELSE IF data.answer = NonString THEN Abandoned
    ELSE IF StartsNotFound(data.answer)
    THEN Returned(data.answer, TrimSnippets(data.citations),
                  IF enable_smart_suggestions THEN found ELSE <<>>)
    ELSE IF Len(data.citations) = 0 /\ GetAnswer(data) # ""
    THEN Returned(data.answer, TrimSnippets(to_citations(selected)), <<>>)
    ELSE IF \E i \in 1..Len(data.citations) : ~data.citations[i].dict
    THEN Abandoned
    ELSE Returned(data.answer,
                  TrimSnippets([i \in 1..Len(data.citations) |->
                                   FixBbox(data.citations[i], selected)]),
                  <<>>)

\* The validation and repair that answer_question applies to the parsed
\* object, on the strict path and again on the regex path: citations must be a
\* list; a not-found answer clears them (found is what find_working_suggestions
\* returns); no citations under an answer become to_citations(selected);
\* otherwise every citation's bbox is fixed; snippets are trimmed.
ValidateAndRepair(data, selected, enable_smart_suggestions, found) ==
    IF data.cit # "list" THEN Abandoned
    ELSE IF data.answer = NonString THEN Abandoned
    ELSE IF StartsNotFound(data.answer)
    THEN Returned(data.answer, <<>>, IF enable_smart_suggestions THEN found ELSE <<>>)
    ELSE IF Len(data.citations) = 0 /\ GetAnswer(data) # ""
    THEN Returned(data.answer, TrimSnippets(to_citations(selected)), <<>>)
    ELSE IF \E i \in 1..Len(data.citations) : ~data.citations[i].dict
    THEN Abandoned
    ELSE Returned(data.answer,
                  TrimSnippets([i \in 1..Len(data.citations) |->
                                   FixBbox(data.citations[i], selected)]),
                  <<>>)

\* The conservative fallback of answer_question.
ConservativeFallback(selected) ==
    [answer |-> IF selected = <<>> THEN NOT_FOUND ELSE SEE_CITED,
     citations |-> to_citations(selected),
     suggestions |-> <<>>,
     path |-> "fallback"]

\* Steps 8 of answer_question: strict json.loads, then the first {...} block,
\* then the conservative fallback.  path names the return statement taken.
ParseAndRepair(raw, selected, enable_smart_suggestions, found) ==
    LET body == ValidateAndRepair(raw, selected, enable_smart_suggestions, found)
    IN  IF raw.wrap \in {"json", "prose"} /\ body.ok
        THEN [answer |-> body.answer, citations |-> body.citations,
              suggestions |-> body.suggestions,
              path |-> IF raw.wrap = "json" THEN "strict" ELSE "regex"]
        ELSE ConservativeFallback(selected)

\* response_text as a string, where the stream handler reads it as one.
ResponseText(raw) ==
    IF raw.wrap = "text" THEN raw.answer
    ELSE IF raw.wrap = "prose" THEN PROSE ELSE JSON_TEXT

\* extracted_answer when generation ended: the non-streaming client keeps the
\* parsed answer or the whole response text, the streaming client the last
\* match of the "answer" pattern in the accumulated text.
ExtractedAnswer(raw, naga) ==
    IF ~naga
    THEN IF raw.wrap = "json" /\ raw.answer # Missing THEN raw.answer
         ELSE ResponseText(raw)
    ELSE IF raw.wrap \in {"json", "prose"} /\ raw.answer \notin {NonString, Missing}
         THEN raw.answer ELSE ""

\* The bbox fix of answer_question_stream for one citation.
StreamFixBbox(c, selected) ==
    IF c.dict /\ c.has_bbox /\ c.doc_id # ""
    THEN LET m == MatchIndex(c, selected)
         IN  IF m # 0 /\ selected[m].bbox # <<>>
             THEN [c EXCEPT !.bbox = selected[m].bbox]
             ELSE c
    ELSE c

StreamDone(answer, citations, suggestions, path, alt) ==
    [kind |-> "done", answer |-> answer, citations |-> citations,
     suggestions |-> suggestions, path |-> path, alt |-> alt]

StreamError ==
    [kind |-> "error", answer |-> "", citations |-> <<>>, suggestions |-> <<>>,
     path |-> "error", alt |-> FALSE]

\* Step 4 of answer_question_stream: the event that ends the stream, and
\* whether the "Finding alternative queries..." status precedes it (alt).
StreamFinal(raw, selected, naga, found) ==
    IF raw.wrap = "json"
    THEN IF raw.cit = "null" /\ selected # <<>> THEN StreamError
         ELSE IF raw.answer = NonString THEN StreamError
         ELSE IF StartsNotFound(raw.answer)
         THEN StreamDone(raw.answer, <<>>, found, "json", TRUE)
         ELSE StreamDone(GetAnswer(raw),
                         IF selected # <<>>
                         THEN [i \in 1..Len(raw.citations) |->
                                  StreamFixBbox(raw.citations[i], selected)]
                         ELSE raw.citations,
                         <<>>, "json", FALSE)
    ELSE LET extracted_answer == ExtractedAnswer(raw, naga)
             fallback_answer ==
                 IF extracted_answer # "" THEN extracted_answer ELSE SEE_CITED
         IN  IF StartsNotFound(fallback_answer)
             THEN StreamDone(fallback_answer, <<>>, found, "fallback", TRUE)
             ELSE StreamDone(fallback_answer, to_citations(selected), <<>>,
                             "fallback", FALSE)

\* The chunk events of the generation step: the non-streaming client yields
\* one, the streaming client one per growth of the extracted answer (here one
\* when the answer is not empty).
ChunkEvents(raw, naga) ==
    IF ~naga THEN <<"chunk">>
    ELSE IF ExtractedAnswer(raw, naga) # "" THEN <<"chunk">> ELSE <<>>

NoResult == [answer |-> "", citations |-> <<>>, suggestions |-> <<>>, path |-> "none"]

QaIdle ==
    /\ qa_pc = "idle" /\ qa_stream = FALSE /\ qa_suggest = FALSE /\ qa_naga = FALSE
    /\ qa_bm25 = NoBranch /\ qa_knn = NoBranch
    /\ qa_hits = <<>> /\ qa_table = <<>> /\ qa_items = <<>> /\ qa_selected = <<>>
    /\ qa_raw = NoRaw /\ qa_result = NoResult /\ qa_events = <<>>

\* A request enters answer_question (with either value of
\* enable_smart_suggestions) or answer_question_stream (with either chat client).
QaInit ==
    /\ qa_pc = "start"
    /\ qa_stream \in BOOLEAN
    /\ qa_suggest \in BOOLEAN
    /\ qa_naga \in BOOLEAN
    /\ qa_stream => qa_suggest
    /\ ~qa_stream => qa_naga
    /\ qa_bm25 = NoBranch /\ qa_knn = NoBranch
    /\ qa_hits = <<>> /\ qa_table = <<>> /\ qa_items = <<>> /\ qa_selected = <<>>
    /\ qa_raw = NoRaw /\ qa_result = NoResult /\ qa_events = <<>>

\* An exception leaves the handler with no error event, in the stream too.
QaRaise_Escapes(events) ==
    /\ qa_pc' = "raised"
    /\ qa_events' = events

\* An exception leaves the handler: answer_question has no handler around the
\* call, answer_question_stream's outer except yields an error event.
QaRaise(events) ==
    /\ qa_pc' = IF qa_stream THEN "error" ELSE "raised"
    /\ qa_events' = IF qa_stream THEN Append(events, "error") ELSE events

\* embed_query(question), after the first status event of the stream.
QaEmbed ==
    /\ qa_pc = "start"
    /\ LET events == IF qa_stream THEN <<"status">> ELSE <<>>
       IN  \E ok \in BOOLEAN :
               IF ok THEN qa_pc' = "embedded" /\ qa_events' = events
               ELSE QaRaise(events)
    /\ UNCHANGED <<qa_stream, qa_suggest, qa_naga, qa_bm25, qa_knn, qa_hits,
                   qa_table, qa_items, qa_selected, qa_raw, qa_result>>
    /\ UNCHANGED NotQa

\* run_hybrid_search: the two submitted searches run to completion.
QaSearchBranches ==
    /\ qa_pc = "embedded"
    /\ qa_bm25' \in BranchOutcomes("bm25", QaChunkIds)
    /\ qa_knn' \in BranchOutcomes("knn", QaChunkIds)
                    \cup {[failed |-> FALSE, hits |-> BulkHits]}
    /\ qa_pc' = "branches"
    /\ UNCHANGED <<qa_stream, qa_suggest, qa_naga, qa_hits, qa_table, qa_items,
                   qa_selected, qa_raw, qa_result, qa_events>>
    /\ UNCHANGED NotQa

\* run_hybrid_search: future.result() of both branches re-raises a branch's
\* exception; otherwise the hit lists are merged.
QaSearchJoin ==
    /\ qa_pc = "branches"
    /\ IF qa_bm25.failed \/ qa_knn.failed
       THEN QaRaise(qa_events) /\ qa_hits' = qa_hits
       ELSE /\ qa_hits' = MergeHybrid(qa_bm25.hits, qa_knn.hits)
            /\ qa_pc' = "searched"
            /\ qa_events' = qa_events
    /\ qa_bm25' = NoBranch /\ qa_knn' = NoBranch
    /\ UNCHANGED <<qa_stream, qa_suggest, qa_naga, qa_table, qa_items,
                   qa_selected, qa_raw, qa_result>>
    /\ UNCHANGED NotQa

\* settings.USE_UNSTRUCTURED is off, or run_table_hybrid_search raises before
\* its branches start and the handler's except swallows it: no table chunks.
QaTableSkipped ==
    /\ qa_pc = "searched"
    /\ qa_table' = <<>>
    /\ qa_pc' = "tabled"
    /\ UNCHANGED <<qa_stream, qa_suggest, qa_naga, qa_bm25, qa_knn, qa_hits,
                   qa_items, qa_selected, qa_raw, qa_result, qa_events>>
    /\ UNCHANGED NotQa

\* run_table_hybrid_search: the two submitted searches run to completion;
\* _run_table_bm25 and _run_table_knn catch their own exceptions.
QaTableBranches ==
    /\ qa_pc = "searched"
    /\ qa_bm25' \in BranchOutcomes("bm25", QaRowIds)
    /\ qa_knn' \in BranchOutcomes("knn", QaRowIds)
    /\ qa_pc' = "table_branches"
    /\ UNCHANGED <<qa_stream, qa_suggest, qa_naga, qa_hits, qa_table, qa_items,
                   qa_selected, qa_raw, qa_result, qa_events>>
    /\ UNCHANGED NotQa

\* run_table_hybrid_search: a failed branch returned [], the lists are merged
\* with size = 20 and the rows converted to chunks.
QaTableJoin ==
    /\ qa_pc = "table_branches"
    /\ LET merged == _merge_table_results(qa_bm25.hits, qa_knn.hits, 20)
           table_rows == [i \in 1..Len(merged) |-> TableRow(merged[i])]
       IN  qa_table' = convert_table_rows_to_chunks(table_rows)
    /\ qa_pc' = "tabled"
    /\ qa_bm25' = NoBranch /\ qa_knn' = NoBranch
    /\ UNCHANGED <<qa_stream, qa_suggest, qa_naga, qa_hits, qa_items,
                   qa_selected, qa_raw, qa_result, qa_events>>
    /\ UNCHANGED NotQa

\* No hits and no table chunks: the not-found result, without generation.
QaNotFound ==
    /\ qa_pc = "tabled"
    /\ qa_hits = <<>> /\ qa_table = <<>>
    /\ qa_result' = [answer |-> NOT_FOUND, citations |-> <<>>,
                     suggestions |-> <<>>, path |-> "early"]
    /\ qa_events' = IF qa_stream THEN Append(qa_events, "done") ELSE qa_events
    /\ qa_pc' = "done"
    /\ UNCHANGED <<qa_stream, qa_suggest, qa_naga, qa_bm25, qa_knn, qa_hits,
                   qa_table, qa_items, qa_selected, qa_raw>>
    /\ UNCHANGED NotQa

\* all_items = hits + table_chunks, reordered by rerank and cut to 15, then
\* turned into chunk dicts.
QaRerank ==
    /\ qa_pc = "tabled"
    /\ ~(qa_hits = <<>> /\ qa_table = <<>>)
    /\ LET all_items == qa_hits \o qa_table
       IN  \E resp \in QaRerankResponses(Len(all_items)) :
               LET order == rerank(Len(all_items), "cohere", TRUE, resp)
                   top == SubSeq(order, 1, Min2(15, Len(order)))
               IN  qa_items' = ItemChunks([i \in 1..Len(top) |-> all_items[top[i] + 1]])
    /\ qa_hits' = <<>> /\ qa_table' = <<>>
    /\ qa_events' = IF qa_stream THEN Append(qa_events, "status") ELSE qa_events
    /\ qa_pc' = "reranked"
    /\ UNCHANGED <<qa_stream, qa_suggest, qa_naga, qa_bm25, qa_knn,
                   qa_selected, qa_raw, qa_result>>
    /\ UNCHANGED NotQa

\* context_text, selected = build_context(chunks)
QaContext ==
    /\ qa_pc = "reranked"
    /\ qa_selected' = build_context(qa_items, TRUE).selected
    /\ qa_items' = <<>>
    /\ qa_events' = IF qa_stream THEN Append(qa_events, "status") ELSE qa_events
    /\ qa_pc' = "context"
    /\ UNCHANGED <<qa_stream, qa_suggest, qa_naga, qa_bm25, qa_knn, qa_hits,
                   qa_table, qa_raw, qa_result>>
    /\ UNCHANGED NotQa

\* The generation call raises (chat.chat, or chat_client.stream part-way).
QaGenerateFails ==
    /\ qa_pc = "context"
    /\ \E partial \in (IF qa_stream /\ qa_naga THEN BOOLEAN ELSE {FALSE}) :
           QaRaise(IF partial THEN Append(qa_events, "chunk") ELSE qa_events)
    /\ UNCHANGED <<qa_stream, qa_suggest, qa_naga, qa_bm25, qa_knn, qa_hits,
                   qa_table, qa_items, qa_selected, qa_raw, qa_result>>
    /\ UNCHANGED NotQa

\* answer_question: generation returns raw, step 8 parses and repairs it.
QaAnswer ==
    /\ qa_pc = "context"
    /\ ~qa_stream
    /\ \E raw \in RawOutputs, found \in SuggestionLists :
           /\ qa_raw' = raw
           /\ qa_result' = ParseAndRepair(raw, qa_selected, qa_suggest, found)
    /\ qa_pc' = "done"
    /\ UNCHANGED <<qa_stream, qa_suggest, qa_naga, qa_bm25, qa_knn, qa_hits,
                   qa_table, qa_items, qa_selected, qa_events>>
    /\ UNCHANGED NotQa

\* answer_question_stream: generation yields its chunk events, step 4 parses
\* the response and yields done, or the outer except yields error.
QaStreamAnswer ==
    /\ qa_pc = "context"
    /\ qa_stream
    /\ \E raw \in RawOutputs, found \in SuggestionLists :
           LET final == StreamFinal(raw, qa_selected, qa_naga, found)
           IN  /\ qa_raw' = raw
               /\ qa_result' = [answer |-> final.answer, citations |-> final.citations,
                                suggestions |-> final.suggestions, path |-> final.path]
               /\ qa_events' = qa_events \o ChunkEvents(raw, qa_naga)
                                   \o (IF final.alt THEN <<"status">> ELSE <<>>)
                                   \o <<final.kind>>
               /\ qa_pc' = final.kind
    /\ UNCHANGED <<qa_stream, qa_suggest, qa_naga, qa_bm25, qa_knn, qa_hits,
                   qa_table, qa_items, qa_selected>>
    /\ UNCHANGED NotQa

\* ========================================================== filter builder

KEYWORD_FIELDS == {"project_id", "doc_type", "discipline", "section", "source"}

FilterKeys == {"project_id", "doc_id", "page_number"}

\* A filter value: None, a scalar (falsy ones included: val = <<"">>), or a
\* list (val is the list).
FilterValues ==
    {[kind |-> "none", val |-> <<>>]}
    \cup [kind : {"scalar"}, val : {<<"p1">>, <<"">>}]
    \cup [kind : {"list"}, val : {<<>>, <<"a", "b">>}]

MaxFilterKeys == 2

\* The dicts with at most MaxFilterKeys keys, in insertion order.
FilterDicts ==
    {d \in SeqsUpTo([k : FilterKeys, v : FilterValues], MaxFilterKeys) :
        \A i, j \in 1..Len(d) : i # j => d[i].k # d[j].k}

\* f"{k}.keyword" if k in KEYWORD_FIELDS else k
FieldName(k) == [key |-> k, keyword |-> k \in KEYWORD_FIELDS]

\* The loop of build_filters with "if not v: continue" for "if v is None".
RECURSIVE FilterLoop_SkipFalsy(_)
FilterLoop_SkipFalsy(items) ==
    IF items = <<>> THEN <<>>
    ELSE LET k == Head(items).k
             v == Head(items).v
         IN  (IF v.kind = "none" \/ v.val = <<>> \/ v.val = <<"">> THEN <<>>
              ELSE IF v.kind = "list"
              THEN <<[op |-> "terms", field |-> FieldName(k), value |-> v.val]>>
              ELSE <<[op |-> "term", field |-> FieldName(k), value |-> v.val]>>)
             \o FilterLoop_SkipFalsy(Tail(items))

\* The loop of build_filters over filters.items().
RECURSIVE FilterLoop(_)
FilterLoop(items) ==
    IF items = <<>> THEN <<>>
    ELSE LET k == Head(items).k
             v == Head(items).v
         IN  (IF v.kind = "none" THEN <<>>
              ELSE IF v.kind = "list"
              THEN <<[op |-> "terms", field |-> FieldName(k), value |-> v.val]>>
              ELSE <<[op |-> "term", field |-> FieldName(k), value |-> v.val]>>)
             \o FilterLoop(Tail(items))

\* build_filters(filters)
build_filters(filters) ==
    IF ~filters.present \/ filters.items = <<>> THEN <<>>
    ELSE FilterLoop(filters.items)

FiltersIdle ==
    /\ bf_pc = "idle" /\ bf_filters = [present |-> FALSE, items |-> <<>>]
    /\ bf_clauses = <<>>

FiltersInit ==
    /\ bf_pc = "call"
    /\ bf_filters \in [present : {TRUE}, items : FilterDicts]
                         \cup {[present |-> FALSE, items |-> <<>>]}
    /\ bf_clauses = <<>>

FiltersCall ==
    /\ bf_pc = "call"
    /\ bf_clauses' = build_filters(bf_filters)
    /\ bf_pc' = "returned"
    /\ UNCHANGED bf_filters

\* ======================================================= query suggestions

\* max_to_test, as both handlers of qa_service pass it.
MAX_TO_TEST == 3

MaxProposed == 4

\* An answer longer than the 150 characters of a preview.
LONG_ANSWER == "The corridor wall is a 1 h assembly of two layers of type X board ..."

\* len(answer)
AnswerLen(a) ==
    IF a = LONG_ANSWER THEN 200
    ELSE IF a = "" \/ a = Missing THEN 0
    ELSE 40

\* A citation of a run's result.
RunCite ==
    [dict |-> TRUE, doc_id |-> "d1", page_number |-> 1, has_bbox |-> TRUE,
     bbox |-> Bbox1, snippet |-> 36]

\* What qa_function(suggestion, filters, size=64) can do: raise, or return a
\* result (answer Missing: a dict without the answer key).
RunOutcomes ==
    [raised : {FALSE}, answer : {POSITIVE, LONG_ANSWER, NOT_FOUND, Missing},
     citations : SeqsUpTo({RunCite}, 2)]
    \cup {[raised |-> TRUE, answer |-> "", citations |-> <<>>]}

\* What generate_query_suggestions can return: the first max_suggestions of the
\* phrasings the model proposed, [] when the call or the parsing raised.
generate_query_suggestions(proposed, failed, max_suggestions) ==
    IF failed THEN <<>>
    ELSE SubSeq(proposed, 1, Min2(max_suggestions, Len(proposed)))

\* test_query_suggestion that accepts every result of a run that did not raise.
test_query_suggestion_AnyResult(run) == ~run.raised

\* test_query_suggestion returns the result (TRUE) or None (FALSE).
test_query_suggestion(run) == ~run.raised /\ Len(run.citations) > 0

\* The entry appended to working_suggestions.
SuggestionEntry(suggestion, result) ==
    [query |-> suggestion,
     preview |-> [of |-> IF result.answer = Missing THEN "" ELSE result.answer,
                  cut |-> AnswerLen(result.answer) > 150],
     citation_count |-> Len(result.citations),
     cached_answer |-> result.answer,
     cached_citations |-> result.citations]

SuggestIdle ==
    /\ sg_pc = "idle" /\ sg_proposed = [n |-> 0, failed |-> FALSE] /\ sg_todo = <<>> /\ sg_tested = <<>> /\ sg_working = <<>>

SuggestInit ==
    /\ sg_pc = "start" /\ sg_proposed = [n |-> 0, failed |-> FALSE] /\ sg_todo = <<>> /\ sg_tested = <<>> /\ sg_working = <<>>

\* find_working_suggestions: generate_query_suggestions, and the early return
\* on an empty list.
SgGenerate ==
    /\ sg_pc = "start"
    /\ \E n \in 0..MaxProposed, failed \in BOOLEAN :
           LET proposed == [i \in 1..n |-> i]
               suggestions == generate_query_suggestions(proposed, failed, MAX_TO_TEST)
           IN  /\ sg_proposed' = [n |-> n, failed |-> failed]
               /\ sg_todo' = suggestions
               /\ sg_pc' = IF suggestions = <<>> THEN "returned" ELSE "testing"
    /\ UNCHANGED <<sg_tested, sg_working>>
    /\ UNCHANGED NotSuggest

\* One iteration of the loop: the phrasing's pipeline run, and the append.
SgTest ==
    /\ sg_pc = "testing"
    /\ sg_todo # <<>>
    /\ \E run \in RunOutcomes :
           /\ sg_tested' = Append(sg_tested, [query |-> Head(sg_todo), run |-> run])
           /\ sg_working' = IF test_query_suggestion(run)
                            THEN Append(sg_working, SuggestionEntry(Head(sg_todo), run))
                            ELSE sg_working
    /\ sg_todo' = Tail(sg_todo)
    /\ UNCHANGED <<sg_pc, sg_proposed>>
    /\ UNCHANGED NotSuggest

\* return working_suggestions
SgReturn ==
    /\ sg_pc = "testing"
    /\ sg_todo = <<>>
    /\ sg_pc' = "returned"
    /\ UNCHANGED <<sg_proposed, sg_todo, sg_tested, sg_working>>
    /\ UNCHANGED NotSuggest

\* ------------------------------------------------------------ sentence trim

\* Most terminators of each kind in a text tried.
MaxMarks == 2

\* Values of max_chars tried: 7/10 of each is a whole number.
TrimMaxChars == {10, 20, 90, 100}

\* Text lengths tried for a given max_chars: shorter, equal, longer.
TrimLens(m) == {m - 1, m, m + 1, m + 6}

\* Terminator positions tried for a given max_chars: early in the text, around
\* 70% of max_chars and around the cutoff.
TrimMarks(m) ==
    {2, (7 * m) \div 10 - 1, (7 * m) \div 10, (7 * m) \div 10 + 1, m - 2, m - 1, m}

\* A text whose terminators lie inside it: a terminator followed by a space
\* is not the last character and is not followed by a terminator.
WellFormedText(t) ==
    /\ t.dots \cap t.stops = {}
    /\ \A p \in t.stops : 0 <= p /\ p < t.n
    /\ \A p \in t.dots : 0 <= p /\ p + 1 < t.n /\ p + 1 \notin t.dots \cup t.stops

\* The texts tried for a given max_chars.
TrimTexts(m) ==
    {t \in {PunctText(n, dots, stops) :
                n \in TrimLens(m),
                dots \in {d \in SUBSET TrimMarks(m) : Cardinality(d) <= MaxMarks},
                stops \in {d \in SUBSET TrimMarks(m) : Cardinality(d) <= MaxMarks}} :
        WellFormedText(t)}

NoText == PlainText(0, {})

TrimIdle == tr_pc = "idle" /\ tr_text = NoText /\ tr_max = 0 /\ tr_out = NoText

TrimInit ==
    /\ tr_pc = "start"
    /\ tr_max \in TrimMaxChars
    /\ tr_text \in TrimTexts(tr_max)
    /\ tr_out = NoText

\* _trim_to_sentence_boundary(text, max_chars)
TrimCall ==
    /\ tr_pc = "start"
    /\ tr_out' = _trim_to_sentence_boundary(tr_text, tr_max)
    /\ tr_pc' = "done"
    /\ UNCHANGED <<tr_text, tr_max>>

\* --------------------------------------------------------- streaming reader

\* Generation text as a sequence of symbols: "Q" a double quote, "B" a
\* backslash, "A" the word answer, "C" a colon, "n" the letter n, "x" any
\* other character, "L" a newline, "/" a slash.
SymbolLen(sym) == IF sym = "A" THEN 6 ELSE 1

RECURSIVE CharLen(_)
CharLen(text) == IF text = <<>> THEN 0 ELSE SymbolLen(Head(text)) + CharLen(Tail(text))

\* The deltas a generation stream is made of: the answer key whole and split
\* in two, plain characters, a quote, a backslash alone, escape pairs.
Deltas ==
    { <<"Q", "A", "Q", "C", "Q">>, <<"Q", "A">>, <<"Q", "C", "Q">>,
      <<"x">>, <<"x", "x">>, <<"B">>, <<"Q">>, <<"n">>,
      <<"B", "B">>, <<"B", "Q">>, <<"A">> }

\* Most deltas of one stream.
MaxDeltas == 4

\* "answer"\s*:\s*" matches at position i (no whitespace in the symbols).
KeyAt(text, i) ==
    /\ i + 4 <= Len(text)
    /\ text[i] = "Q" /\ text[i + 1] = "A" /\ text[i + 2] = "Q"
    /\ text[i + 3] = "C" /\ text[i + 4] = "Q"

\* ((?:[^"\\]|\\.)*) from position j, greedy: the position after the group.
\* A backslash escapes the next character; a backslash before the word answer
\* escapes its first letter.
RECURSIVE GroupEnd(_, _)
GroupEnd(text, j) ==
    IF j > Len(text) THEN j
    ELSE IF text[j] = "Q" THEN j
    ELSE IF text[j] = "B"
    THEN IF j + 1 <= Len(text) THEN GroupEnd(text, j + 2) ELSE j
    ELSE GroupEnd(text, j + 1)

\* The pattern matches from position i: after the group comes a quote or the
\* end of the text.  (Giving characters back never helps: what follows a
\* shorter group is a character of the group.)
MatchesAt(text, i) ==
    /\ KeyAt(text, i)
    /\ LET e == GroupEnd(text, i + 5) IN e > Len(text) \/ text[e] = "Q"

\* re.search(...): the leftmost position the pattern matches from, 0 if none.
SearchAnswer(text) ==
    LET M == {i \in 1..Len(text) : MatchesAt(text, i)}
    IN  IF M = {} THEN 0 ELSE CHOOSE i \in M : \A j \in M : i <= j

\* match.group(1)
Group1(text, i) == SubSeq(text, i + 5, GroupEnd(text, i + 5) - 1)

\* str.replace of the two-character string <<a, b>> by the character r, left
\* to right without overlap.
RECURSIVE Replace2(_, _, _, _)
Replace2(text, a, b, r) ==
    IF Len(text) < 2 THEN text
    ELSE IF text[1] = a /\ text[2] = b
    THEN <<r>> \o Replace2(SubSeq(text, 3, Len(text)), a, b, r)
    ELSE <<text[1]>> \o Replace2(Tail(text), a, b, r)

\* raw_answer.replace('\\"', '"').replace('\\n', '\n').replace('\\/', '/')
\*     .replace('\\\\', '\\')
Unescape(raw_answer) ==
    Replace2(Replace2(Replace2(Replace2(raw_answer, "B", "Q", "Q"),
                               "B", "n", "L"),
                      "B", "/", "/"),
             "B", "B", "B")

\* One pass of the loop body that yields the rest of the answer whenever the
\* pattern matches.
ReadOne_NoLengthTest(acc, last, extracted, chunks) ==
    LET i == SearchAnswer(acc)
    IN  IF i = 0
        THEN [last |-> last, extracted |-> extracted, chunks |-> chunks]
        ELSE LET answer_len == CharLen(Unescape(Group1(acc, i)))
             IN  [last |-> answer_len, extracted |-> answer_len,
                  chunks |-> Append(chunks, IF answer_len > last
                                            THEN answer_len - last ELSE 0)]

\* One pass of the loop body after accumulated_text += chunk: extract the
\* answer, yield what is new of it, remember its length.
ReadOne(acc, last, extracted, chunks) ==
    LET i == SearchAnswer(acc)
    IN  IF i = 0
        THEN [last |-> last, extracted |-> extracted, chunks |-> chunks]
        ELSE LET answer_len == CharLen(Unescape(Group1(acc, i)))
             IN  IF answer_len > last
                 THEN [last |-> answer_len, extracted |-> answer_len,
                       chunks |-> IF answer_len - last > 0
                                  THEN Append(chunks, answer_len - last)
                                  ELSE chunks]
                 ELSE [last |-> last, extracted |-> answer_len, chunks |-> chunks]

ReaderIdle ==
    /\ sr_pc = "idle" /\ sr_steps = 0 /\ sr_acc = <<>> /\ sr_last = 0
    /\ sr_extracted = -1 /\ sr_chunks = <<>>

\* accumulated_text = "", last_answer_length = 0
ReaderInit ==
    /\ sr_pc = "reading" /\ sr_steps = 0 /\ sr_acc = <<>> /\ sr_last = 0
    /\ sr_extracted = -1 /\ sr_chunks = <<>>

\* for chunk in chat_client.stream(...): one delta arrives
ReadDelta ==
    /\ sr_pc = "reading"
    /\ sr_steps < MaxDeltas
    /\ \E chunk \in Deltas :
           LET acc == sr_acc \o chunk
               r == ReadOne(acc, sr_last, sr_extracted, sr_chunks)
           IN  /\ sr_acc' = acc
               /\ sr_last' = r.last
               /\ sr_extracted' = r.extracted
               /\ sr_chunks' = r.chunks
    /\ sr_steps' = sr_steps + 1
    /\ sr_pc' = "reading"
    /\ UNCHANGED NotReader

\* The stream is exhausted: response_text = accumulated_text
ReadEnd ==
    /\ sr_pc = "reading"
    /\ sr_pc' = "read"
    /\ UNCHANGED <<sr_steps, sr_acc, sr_last, sr_extracted, sr_chunks>>
    /\ UNCHANGED NotReader

\* ----------------------------------------------------------- nested requests

\* Deepest call stack tried.
MaxStack == 6

\* enable_smart_suggestions as answer_question_no_suggestions passes it, were
\* it to leave suggestions on.
answer_question_no_suggestions_Enabled == TRUE

\* enable_smart_suggestions as answer_question_no_suggestions passes it.
answer_question_no_suggestions == FALSE

\* How a pipeline run can go before a suggestion search: an exception, the
\* early not-found return, a parsed answer that starts with "not found", a
\* not-found sentence outside any JSON object (the conservative fallback of
\* answer_question, the extracted-answer fallback of the stream), any other
\* answer with or without citations.
PipelineOutcomes ==
    {"raised", "early", "not_found", "not_found_text", "cited", "uncited"}

\* The handler calls find_working_suggestions: answer_question when the parsed
\* answer starts with "not found" and enable_smart_suggestions is set, the
\* stream handler also when its fallback answer does.
CallsEngine(frame, outcome) ==
    IF frame.fn = "answer_question"
    THEN frame.enable /\ outcome = "not_found"
    ELSE outcome \in {"not_found", "not_found_text"}

HandlerFrame(fn, enable) == [fn |-> fn, enable |-> enable, pc |-> "start", todo |-> 0]

EngineFrame == [fn |-> "find_working_suggestions", enable |-> FALSE,
                pc |-> "generate", todo |-> 0]

Top(stack) == stack[Len(stack)]

Pop(stack) == SubSeq(stack, 1, Len(stack) - 1)

\* The stack after its top frame returned: an engine frame below it goes on
\* with its next suggestion.
Returned2(stack) ==
    LET rest == Pop(stack)
    IN  IF rest # <<>> /\ Top(rest).fn = "find_working_suggestions"
        THEN [rest EXCEPT ![Len(rest)].todo = @ - 1]
        ELSE rest

NestIdle ==
    /\ nq_stack = <<>> /\ nq_engine = 0 /\ nq_runs = 0 /\ nq_tested = <<>> /\ nq_out = "idle"

\* A request enters answer_question (either value of enable_smart_suggestions)
\* or answer_question_stream.
NestInit ==
    /\ \E fn \in {"answer_question", "answer_question_stream"}, enable \in BOOLEAN :
           /\ fn = "answer_question_stream" => enable
           /\ nq_stack = <<HandlerFrame(fn, enable)>>
    /\ nq_engine = 0 /\ nq_runs = 0 /\ nq_tested = <<>> /\ nq_out = ""

\* A handler runs retrieval, generation and parsing; it then returns (or
\* raises), or calls find_working_suggestions.
NqPipeline ==
    /\ nq_stack # <<>>
    /\ Top(nq_stack).fn # "find_working_suggestions"
    /\ Top(nq_stack).pc = "start"
    /\ \E outcome \in PipelineOutcomes :
           IF CallsEngine(Top(nq_stack), outcome)
           THEN /\ Len(nq_stack) < MaxStack
                /\ nq_stack' = Append([nq_stack EXCEPT ![Len(nq_stack)].pc = "suggesting"],
                                      EngineFrame)
                /\ nq_engine' = nq_engine + 1
                /\ UNCHANGED <<nq_tested, nq_out>>
           ELSE /\ nq_stack' = Returned2(nq_stack)
                /\ nq_engine' = nq_engine
                /\ IF Len(nq_stack) = 1
                   THEN nq_out' = outcome /\ nq_tested' = nq_tested
                   ELSE nq_out' = nq_out /\ nq_tested' = Append(nq_tested, outcome)
    /\ UNCHANGED nq_runs
    /\ UNCHANGED NotNest

\* find_working_suggestions: generate_query_suggestions(original_query,
\* max_suggestions=max_to_test); an empty list is returned at once.
NqGenerate ==
    /\ nq_stack # <<>>
    /\ Top(nq_stack).fn = "find_working_suggestions"
    /\ Top(nq_stack).pc = "generate"
    /\ \E n \in 0..MaxProposed, failed \in BOOLEAN :
           LET suggestions ==
                   generate_query_suggestions([i \in 1..n |-> i], failed, MAX_TO_TEST)
           IN  nq_stack' = IF suggestions = <<>> THEN Pop(nq_stack)
                           ELSE [nq_stack EXCEPT ![Len(nq_stack)].pc = "testing",
                                                 ![Len(nq_stack)].todo = Len(suggestions)]
    /\ UNCHANGED <<nq_engine, nq_runs, nq_tested, nq_out>>
    /\ UNCHANGED NotNest

\* test_query_suggestion: qa_function(suggestion, filters, size=64), which is
\* answer_question_no_suggestions.
NqTest ==
    /\ nq_stack # <<>>
    /\ Top(nq_stack).fn = "find_working_suggestions"
    /\ Top(nq_stack).pc = "testing"
    /\ Top(nq_stack).todo > 0
    /\ Len(nq_stack) < MaxStack
    /\ nq_stack' = Append(nq_stack,
                          HandlerFrame("answer_question", answer_question_no_suggestions))
    /\ nq_runs' = nq_runs + 1
    /\ UNCHANGED <<nq_engine, nq_tested, nq_out>>
    /\ UNCHANGED NotNest

\* find_working_suggestions: the loop is over, return working_suggestions.
NqEngineReturn ==
    /\ nq_stack # <<>>
    /\ Top(nq_stack).fn = "find_working_suggestions"
    /\ Top(nq_stack).pc = "testing"
    /\ Top(nq_stack).todo = 0
    /\ nq_stack' = Pop(nq_stack)
    /\ UNCHANGED <<nq_engine, nq_runs, nq_tested, nq_out>>
    /\ UNCHANGED NotNest

\* The handler attaches the suggestions and returns its not-found result.
NqFinish ==
    /\ nq_stack # <<>>
    /\ Top(nq_stack).fn # "find_working_suggestions"
    /\ Top(nq_stack).pc = "suggesting"
    /\ nq_stack' = Returned2(nq_stack)
    /\ IF Len(nq_stack) = 1
       THEN nq_out' = "not_found" /\ nq_tested' = nq_tested
       ELSE nq_out' = nq_out /\ nq_tested' = Append(nq_tested, "not_found")
    /\ UNCHANGED <<nq_engine, nq_runs>>
    /\ UNCHANGED NotNest

\* ---------------------------------------------------------------- TOC router

\* triggers: (label, words) for every document section.
triggers ==
    << [label |-> "architectural",
        words |-> <<"architectural", "drawing", "floor plan", "plan", "architecture">>],
       [label |-> "site", words |-> <<"site plan", "site", "lot plan">>],
       [label |-> "civil", words |-> <<"civil", "grading", "lot grading">>],
       [label |-> "mechanical",
        words |-> <<"mechanical", "hvac", "ventilation", "heating", "cooling">>],
       [label |-> "electrical", words |-> <<"electrical", "electric", "power", "wiring">>],
       [label |-> "plumbing", words |-> <<"plumbing", "plumb", "piping", "water">>],
       [label |-> "spec",
        words |-> <<"spec", "specification", "sb-12", "support doc", "supporting">>],
       [label |-> "permit", words |-> <<"permit", "application">>],
       [label |-> "inspection", words |-> <<"inspection", "inspect">>],
       [label |-> "structural",
        words |-> <<"structural", "structure", "framing", "foundation">>] >>

\* The trigger words that are substrings of text.lower(), for the queries and
\* titles tried.
WordsIn(text) ==
    CASE text = "Where is the HVAC layout?" -> {"hvac"}
      [] text = "Mechanical Drawings" -> {"mechanical", "drawing"}
      [] text = "HVAC Schedules" -> {"hvac"}
      [] text = "Site Plan" -> {"site plan", "site", "plan"}
      [] text = "Show me the site plan" -> {"site plan", "site", "plan"}
      [] text = "Electrical panel wiring" -> {"electrical", "electric", "wiring"}
      [] text = "Power Distribution" -> {"power"}
      [] text = "Who is the owner?" -> {}
      [] text = "General Notes" -> {}

RouterQueries ==
    {"Where is the HVAC layout?", "Show me the site plan", "Electrical panel wiring",
     "Who is the owner?"}

RouterTitles ==
    {"Mechanical Drawings", "HVAC Schedules", "Site Plan", "Power Distribution",
     "General Notes"}

\* Most toc_entries rows of a project.
MaxRows == 2

\* w in text.lower()
InText(w, text) == w \in WordsIn(text)

\* hit = any(any(w in ql for w in words) for _, words in triggers)
QueryHit(query) ==
    \E g \in 1..Len(triggers) :
        \E k \in 1..Len(triggers[g].words) : InText(triggers[g].words[k], query)

\* matches, for one row: some word of some group is in the query and in the
\* title.
RowMatches(query, title) ==
    \E g \in 1..Len(triggers) :
        \E k \in 1..Len(triggers[g].words) :
            InText(triggers[g].words[k], query) /\ InText(triggers[g].words[k], title)

\* The loop over rows: out.append((doc_id, page_start, page_end)).
RECURSIVE FilterRows(_, _)
FilterRows(query, rows) ==
    IF rows = <<>> THEN <<>>
    ELSE (IF RowMatches(query, Head(rows).title)
          THEN <<[doc_id |-> Head(rows).doc_id, page_start |-> Head(rows).page_start,
                  page_end |-> Head(rows).page_end]>>
          ELSE <<>>)
         \o FilterRows(query, Tail(rows))

\* guess_toc_ranges(project_id, query): the ranges and the number of SELECTs.
guess_toc_ranges(query, rows, db_ok) ==
    IF ~QueryHit(query) THEN [out |-> <<>>, lookups |-> 0]
    ELSE IF ~db_ok THEN [out |-> <<>>, lookups |-> 0]
    ELSE [out |-> FilterRows(query, rows), lookups |-> 1]

TocRows ==
    {[doc_id |-> "d1", page_start |-> 10 * k, page_end |-> 10 * k + 9, title |-> t] :
        k \in 1..MaxRows, t \in RouterTitles}

RouterIdle ==
    /\ rt_pc = "idle" /\ rt_query = "" /\ rt_rows = <<>> /\ rt_db_ok = TRUE
    /\ rt_lookups = 0 /\ rt_out = <<>>

RouterInit ==
    /\ rt_pc = "call"
    /\ rt_query \in RouterQueries
    /\ rt_rows \in {r \in SeqsUpTo(TocRows, MaxRows) :
                       \A i \in 1..Len(r) : r[i].page_start = 10 * i}
    /\ rt_db_ok \in BOOLEAN
    /\ rt_lookups = 0
    /\ rt_out = <<>>

\* guess_toc_ranges(project_id, query)
RouterCall ==
    /\ rt_pc = "call"
    /\ LET r == guess_toc_ranges(rt_query, rt_rows, rt_db_ok)
       IN  rt_out' = r.out /\ rt_lookups' = r.lookups
    /\ rt_pc' = "returned"
    /\ UNCHANGED <<rt_query, rt_rows, rt_db_ok>>

\* ---------------------------------------------------------------- vector search

\* A document without a "vector" field: hit["_source"].get("vector") is None.
NoVector == <<>>

\* Stored vectors, two components each; <<0, 0>> is the placeholder vector
\* that dev_seed.py indexes.
StoredVectors == {<<1, 0>>, <<1, 1>>, <<0, 1>>, <<0, 0>>, NoVector}

\* Query vectors, as the embedder returns them.
QueryVectors == {<<1, 0>>, <<1, 1>>}

\* Most documents of an index whose documents are all enumerated.
MaxIndex == 3

IndexDocs == [matches : BOOLEAN, vector : StoredVectors]

\* An index with more filter-matching documents than the fallback fetches for
\* size 1.
LongIndex ==
    [i \in 1..7 |->
        [matches |-> TRUE,
         vector |-> IF i = 2 THEN <<0, 0>> ELSE IF i % 2 = 0 THEN <<1, 1>> ELSE <<1, 0>>]]

\* np.dot(a, b)
Dot(a, b) == a[1] * b[1] + a[2] * b[2]

\* A float score: nan, or a number.
Nan == [nan |-> TRUE, v |-> 0]

Float(v) == [nan |-> FALSE, v |-> v]

\* np.dot(qvec, vec) / (np.linalg.norm(qvec) * np.linalg.norm(vec)): with a
\* norm of 0 the quotient is 0.0 / 0.0 = nan.  The number kept for a cosine c is
\* 4 * c * |c|, an integer for the vectors above that grows with c.
similarity(qvec, vec) ==
    LET d == Dot(qvec, vec)
        n2 == Dot(qvec, qvec) * Dot(vec, vec)
    IN  IF n2 = 0 THEN Nan
        ELSE Float((IF d < 0 THEN -1 ELSE 1) * ((4 * d * d) \div n2))

\* The loop "for hit in hits": hit["_score"] = float(similarity), or 0.0 when
\* the document has no vector.
ScoreHit(qvec, hit) ==
    [hit EXCEPT !.score = IF hit.vector = NoVector THEN Float(0)
                          ELSE similarity(qvec, hit.vector)]

\* x < y on floats: False when either side is nan.
ISLT(x, y) == ~x.nan /\ ~y.nan /\ x.v < y.v

ReverseSeq(s) == [i \in 1..Len(s) |-> s[Len(s) + 1 - i]]

\* list.sort, count_run: the length of the run that starts the list, a[k+1]
\* being the next element looked at.
RECURSIVE RunLen(_, _, _)
RunLen(a, k, desc) ==
    IF k = Len(a) THEN k
    ELSE IF ISLT(a[k + 1].score, a[k].score) = desc THEN RunLen(a, k + 1, desc)
    ELSE k

\* list.sort, binarysort: the place of pivot in a[l+1 .. r], found by bisection.
RECURSIVE BinaryPos(_, _, _, _)
BinaryPos(a, pivot, l, r) ==
    IF l >= r THEN l
    ELSE LET p == l + ((r - l) \div 2)
         IN  IF ISLT(pivot.score, a[p + 1].score) THEN BinaryPos(a, pivot, l, p)
             ELSE BinaryPos(a, pivot, p + 1, r)

\* list.sort, binarysort: a[1 .. start] is sorted, the rest is inserted.
RECURSIVE BinarySort(_, _)
BinarySort(a, start) ==
    IF start >= Len(a) THEN a
    ELSE LET pivot == a[start + 1]
             l == BinaryPos(a, pivot, 0, start)
         IN  BinarySort(SubSeq(a, 1, l) \o <<pivot>> \o SubSeq(a, l + 1, start)
                            \o SubSeq(a, start + 2, Len(a)),
                        start + 1)

\* list.sort of a short list, ascending.
SortAscending(a) ==
    IF Len(a) < 2 THEN a
    ELSE LET desc == ISLT(a[2].score, a[1].score)
             run == RunLen(a, 2, desc)
             a1 == IF desc
                   THEN ReverseSeq(SubSeq(a, 1, run)) \o SubSeq(a, run + 1, Len(a))
                   ELSE a
         IN  BinarySort(a1, run)

\* hits.sort(key=lambda x: x["_score"], reverse=True): the list is reversed,
\* sorted ascending and reversed again.
SortScoreReverse(hits) == ReverseSeq(SortAscending(ReverseSeq(hits)))

\* The hits of the index that match the filter clauses, in the engine's order.
RECURSIVE Matching(_, _)
Matching(index, i) ==
    IF i > Len(index) THEN <<>>
    ELSE (IF index[i].matches
          THEN <<[id |-> i, vector |-> index[i].vector, score |-> Float(1)]>>
          ELSE <<>>)
         \o Matching(index, i + 1)

FirstN(s, n) == SubSeq(s, 1, Min2(n, Len(s)))

\* fetch_body: "size": min(size * 5, 500), filter clauses, match_all.
Fetch(index, size) == FirstN(Matching(index, 1), Min2(size * 5, 500))

\* The k-NN query with its post_filter: at most size hits, scored by the
\* engine.
KnnSearch(index, size) ==
    FirstN(SelectSeq(Matching(index, 1), LAMBDA h : h.vector # NoVector), size)

\* The except branch of run_vector_search.
CosineFallback(qvec, hits, size) ==
    FirstN(SortScoreReverse([i \in 1..Len(hits) |-> ScoreHit(qvec, hits[i])]), size)

VectorIdle ==
    /\ vs_pc = "idle" /\ vs_qvec = <<>> /\ vs_size = 0 /\ vs_index = <<>>
    /\ vs_knn_ok = TRUE /\ vs_fetch_ok = TRUE /\ vs_fetched = <<>> /\ vs_out = <<>>

VectorInit ==
    /\ vs_pc = "call"
    /\ vs_qvec \in QueryVectors
    /\ vs_size \in 1..MaxSize + 1
    /\ vs_index \in SeqsUpTo(IndexDocs, MaxIndex) \cup {LongIndex}
    /\ vs_knn_ok \in BOOLEAN
    /\ vs_fetch_ok \in BOOLEAN
    /\ vs_fetched = <<>>
    /\ vs_out = <<>>

\* run_vector_search(query_vector, size, num_candidates, filters)
VectorSearchCall ==
    /\ vs_pc = "call"
    /\ IF vs_knn_ok
       THEN /\ vs_pc' = "returned"
            /\ vs_out' = KnnSearch(vs_index, vs_size)
            /\ vs_fetched' = <<>>
       ELSE IF ~vs_fetch_ok
       THEN /\ vs_pc' = "raised"
            /\ vs_out' = <<>>
            /\ vs_fetched' = <<>>
       ELSE /\ vs_pc' = "returned"
            /\ vs_fetched' = Fetch(vs_index, vs_size)
            /\ vs_out' = CosineFallback(vs_qvec, Fetch(vs_index, vs_size), vs_size)
    /\ UNCHANGED <<vs_qvec, vs_size, vs_index, vs_knn_ok, vs_fetch_ok>>

\* -------------------------------------------------------------- retrying clients

Clients == {"embed", "naga", "cohere"}

\* Largest argument retry tried; the callers leave the default 2.
MaxRetry == 2

\* Largest argument sleep tried; the callers leave the default 1.0.
MaxSleep == 2

\* What one requests.post can come to: a 200 response whose body decodes to the
\* expected fields, a 200 response whose body does not (resp.json() or the
\* indexing raises), another status, or an exception of requests.
Responses == {"ok", "bad_body", "http_error", "timeout", "connection", "other"}

\* resp.status_code == 200
Status200(r) == r \in {"ok", "bad_body"}

\* last_error after an attempt that did not return.
ErrorOf(r) ==
    CASE r = "http_error" -> "HTTP status and body"
      [] r = "timeout" -> "Request timed out (API not responding)"
      [] r = "connection" -> "Connection failed (API unreachable)"
      [] r \in {"bad_body", "other"} -> "str(e)"

\* time.sleep(sleep * (attempt + 1)), with no growth.
Delay_Flat(sleep, attempt) == sleep

\* time.sleep(sleep * (attempt + 1))
Delay(sleep, attempt) == sleep * (attempt + 1)

NoError == [type |-> "", attempts |-> 0, error |-> ""]

\* raise RuntimeError(f"... failed after {retry + 1} attempts: {last_error}")
FailedAfter(retry, last_error) ==
    [type |-> "RuntimeError", attempts |-> retry + 1, error |-> last_error]

PostEvent(r) == [kind |-> "post", outcome |-> r, delay |-> 0]

SleepEvent(d) == [kind |-> "sleep", outcome |-> "", delay |-> d]

RetryIdle ==
    /\ rc_client = "" /\ rc_retry = 0 /\ rc_sleep = 0 /\ rc_pc = "idle"
    /\ rc_attempt = 0 /\ rc_log = <<>> /\ rc_last_error = "" /\ rc_raised = NoError

RetryInit ==
    /\ rc_client \in Clients
    /\ rc_retry \in 0..MaxRetry
    /\ rc_sleep \in 1..MaxSleep
    /\ rc_pc = "loop"
    /\ rc_attempt = 0
    /\ rc_log = <<>>
    /\ rc_last_error = ""
    /\ rc_raised = NoError

\* One iteration of "for attempt in range(retry + 1)" up to its return, its
\* time.sleep, or the raise after the loop.
RetryAttempt ==
    /\ rc_pc = "loop"
    /\ \E r \in Responses :
          IF r = "ok"
          THEN /\ rc_pc' = "returned"
               /\ rc_log' = Append(rc_log, PostEvent(r))
               /\ UNCHANGED <<rc_last_error, rc_raised>>
          ELSE /\ rc_last_error' = ErrorOf(r)
               /\ IF rc_attempt < rc_retry
                  THEN /\ rc_pc' = "sleeping"
                       /\ rc_log' = rc_log \o <<PostEvent(r),
                                               SleepEvent(Delay(rc_sleep, rc_attempt))>>
                       /\ UNCHANGED rc_raised
                  ELSE /\ rc_pc' = "raised"
                       /\ rc_log' = Append(rc_log, PostEvent(r))
                       /\ rc_raised' = FailedAfter(rc_retry, ErrorOf(r))
    /\ UNCHANGED <<rc_client, rc_retry, rc_sleep, rc_attempt>>

\* time.sleep returns and the loop takes the next attempt.
RetryWake ==
    /\ rc_pc = "sleeping"
    /\ rc_pc' = "loop"
    /\ rc_attempt' = rc_attempt + 1
    /\ UNCHANGED <<rc_client, rc_retry, rc_sleep, rc_log, rc_last_error, rc_raised>>

\* --------------------------------------------------------------- ingestion job

SetStatus(v) == [op |-> "status", name |-> v, val |-> 0]

SetProgress(v) == [op |-> "progress", name |-> "", val |-> v]

Call(name) == [op |-> "call", name |-> name, val |-> 0]

\* The try body of ingest_pdf_with_progress as the list of its field updates
\* and of its calls that can raise, in program order; message and doc_id
\* updates are left out.  Between "connect" and "close" the inner try/finally
\* is open.
Program(vision, unstructured) ==
    <<SetStatus("processing"), SetProgress(5), SetProgress(10), Call("extract_pdf"),
      SetProgress(15), SetProgress(20), Call("try_extract_toc"), SetProgress(25),
      Call("file_checksum"), Call("connect"), Call("upsert_doc_and_pages"),
      SetProgress(30)>>
    \o (IF vision
        THEN <<SetProgress(35), Call("process_document_with_vision"), SetProgress(50)>>
        ELSE <<>>)
    \o (IF unstructured
        THEN <<SetProgress(55), Call("process_document_with_unstructured"),
               SetProgress(65)>>
        ELSE <<>>)
    \o <<SetProgress(70), Call("chunk_pages"), SetProgress(75), Call("embed_chunks"),
         SetProgress(80), Call("bulk_index_chunks")>>
    \o (IF vision
        THEN <<SetProgress(90), Call("process_visual_content_for_search")>>
        ELSE <<>>)
    \o <<SetProgress(95), Call("close"), SetStatus("completed"), SetProgress(100),
         Call("print")>>

\* The position of the call name in the program.
PositionOf(prog, name) == CHOOSE k \in 1..Len(prog) : prog[k] = Call(name)

\* The operation at position k stands inside "try: ... finally: conn.close()".
InsideFinally(prog, k) ==
    k > PositionOf(prog, "connect") /\ k < PositionOf(prog, "close")

\* The ingestion steps of the program: its calls up to conn.close().
IngestionSteps(prog) ==
    {prog[k].name : k \in {j \in 1..PositionOf(prog, "close") : prog[j].op = "call"}}

\* progress.status = v, with the history of its values.
Assigned(hist, v) == IF hist[Len(hist)] = v THEN hist ELSE Append(hist, v)

NoSnap == [status |-> "", progress |-> 0, error |-> ""]

NoRead == [pc |-> "idle", status |-> "", progress |-> 0]

IngestIdle ==
    /\ ig_vision = FALSE /\ ig_unstructured = FALSE /\ ig_at = "idle" /\ ig_k = 0
    /\ ig_status = "" /\ ig_progress = 0 /\ ig_error = "" /\ ig_hist = <<>>
    /\ ig_calls = {} /\ ig_raised = {} /\ ig_empty = FALSE
    /\ ig_rd = NoRead /\ ig_snap = NoSnap

\* upload_pdf has stored IngestionProgress(job_id, filename) and scheduled the
\* task.
IngestInit ==
    /\ ig_vision \in BOOLEAN
    /\ ig_unstructured \in BOOLEAN
    /\ ig_at = "program"
    /\ ig_k = 1
    /\ ig_status = "pending"
    /\ ig_progress = 0
    /\ ig_error = "None"
    /\ ig_hist = <<"pending">>
    /\ ig_calls = {}
    /\ ig_raised = {}
    /\ ig_empty = FALSE
    /\ ig_rd = NoRead
    /\ ig_snap = NoSnap

taskVars == <<ig_at, ig_k, ig_status, ig_progress, ig_error, ig_hist, ig_calls,
              ig_raised, ig_empty>>

\* The task goes on to the next operation, or falls out of the try statement.
Advance(prog) ==
    IF ig_k = Len(prog)
    THEN ig_at' = "done" /\ ig_k' = ig_k
    ELSE ig_at' = "program" /\ ig_k' = ig_k + 1

\* One field update of the try body.
IngestAssign ==
    /\ ig_at = "program"
    /\ LET prog == Program(ig_vision, ig_unstructured)
           o == prog[ig_k]
       IN  /\ o.op \in {"status", "progress"}
           /\ IF o.op = "status"
              THEN /\ ig_status' = o.name
                   /\ ig_hist' = Assigned(ig_hist, o.name)
                   /\ UNCHANGED ig_progress
              ELSE /\ ig_progress' = o.val
                   /\ UNCHANGED <<ig_status, ig_hist>>
           /\ Advance(prog)
    /\ UNCHANGED <<ig_vision, ig_unstructured, ig_error, ig_calls, ig_raised, ig_empty,
                   ig_rd, ig_snap>>

\* One call of the try body: it returns, or raises an Exception; chunk_pages
\* can also return an empty list.
IngestCall ==
    /\ ig_at = "program"
    /\ LET prog == Program(ig_vision, ig_unstructured)
           o == prog[ig_k]
       IN  /\ o.op = "call"
           /\ \/ /\ ig_calls' = ig_calls \cup {o.name}
                 /\ Advance(prog)
                 /\ UNCHANGED <<ig_raised, ig_empty>>
              \/ /\ ig_raised' = ig_raised \cup {o.name}
                 /\ ig_at' = IF InsideFinally(prog, ig_k) THEN "finally" ELSE "except_status"
                 /\ UNCHANGED <<ig_k, ig_calls, ig_empty>>
              \/ /\ o.name = "chunk_pages"
                 /\ ig_empty' = TRUE
                 /\ ig_at' = "empty_status"
                 /\ UNCHANGED <<ig_k, ig_calls, ig_raised>>
    /\ UNCHANGED <<ig_vision, ig_unstructured, ig_status, ig_progress, ig_error, ig_hist,
                   ig_rd, ig_snap>>

\* "if not chunks": progress.status = "failed"
IngestEmptyStatus ==
    /\ ig_at = "empty_status"
    /\ ig_status' = "failed"
    /\ ig_hist' = Assigned(ig_hist, "failed")
    /\ ig_at' = "empty_error"
    /\ UNCHANGED <<ig_vision, ig_unstructured, ig_k, ig_progress, ig_error, ig_calls,
                   ig_raised, ig_empty, ig_rd, ig_snap>>

\* "if not chunks": progress.error = "No chunks produced", then return through
\* the finally clause.
IngestEmptyError ==
    /\ ig_at = "empty_error"
    /\ ig_error' = "No chunks produced"
    /\ ig_at' = "empty_finally"
    /\ UNCHANGED <<ig_vision, ig_unstructured, ig_k, ig_status, ig_progress, ig_hist,
                   ig_calls, ig_raised, ig_empty, ig_rd, ig_snap>>

\* finally: conn.close(), on the way out of the inner try after a raise or
\* after the return of the empty branch.  If it raises, the except clause runs.
IngestFinally ==
    /\ ig_at \in {"finally", "empty_finally"}
    /\ \/ /\ ig_at' = IF ig_at = "finally" THEN "except_status" ELSE "done"
          /\ UNCHANGED ig_raised
       \/ /\ ig_at' = "except_status"
          /\ ig_raised' = ig_raised \cup {"close"}
    /\ UNCHANGED <<ig_vision, ig_unstructured, ig_k, ig_status, ig_progress, ig_error,
                   ig_hist, ig_calls, ig_empty, ig_rd, ig_snap>>

\* except Exception as e: progress.status = "failed"
IngestExceptStatus ==
    /\ ig_at = "except_status"
    /\ ig_status' = "failed"
    /\ ig_hist' = Assigned(ig_hist, "failed")
    /\ ig_at' = "except_error"
    /\ UNCHANGED <<ig_vision, ig_unstructured, ig_k, ig_progress, ig_error, ig_calls,
                   ig_raised, ig_empty, ig_rd, ig_snap>>

\* except Exception as e: progress.error = str(e); the prints and the removal
\* of the uploaded file follow and change no field.
IngestExceptError ==
    /\ ig_at = "except_error"
    /\ ig_error' = "str(e)"
    /\ ig_at' = "done"
    /\ UNCHANGED <<ig_vision, ig_unstructured, ig_k, ig_status, ig_progress, ig_hist,
                   ig_calls, ig_raised, ig_empty, ig_rd, ig_snap>>

\* get_ingestion_status builds its response: "status": progress.status
ReadStatus ==
    /\ ig_rd.pc = "idle"
    /\ ig_rd' = [pc |-> "status", status |-> ig_status, progress |-> 0]
    /\ UNCHANGED <<ig_vision, ig_unstructured, taskVars, ig_snap>>

\* "progress": progress.progress
ReadProgress ==
    /\ ig_rd.pc = "status"
    /\ ig_rd' = [ig_rd EXCEPT !.pc = "progress", !.progress = ig_progress]
    /\ UNCHANGED <<ig_vision, ig_unstructured, taskVars, ig_snap>>

\* "error": progress.error, and the response is returned.
ReadError ==
    /\ ig_rd.pc = "progress"
    /\ ig_snap' = [status |-> ig_rd.status, progress |-> ig_rd.progress, error |-> ig_error]
    /\ ig_rd' = NoRead
    /\ UNCHANGED <<ig_vision, ig_unstructured, taskVars>>

\* -------------------------------------------------------------- adjustment loop

\* Text lengths tried in the partial-fit branch.
AdjustLens == {450, 700, 1000}

\* Lengths of the opening stretch with its own token cost.
AdjustHeads == {0, 150, 300, 450}

\* Positions of a terminator followed by a space.
AdjustDots == {{}, {75}, {170}, {75, 170}, {165, 380}}

\* The texts tried: plain prose, a dense opening, a sparse opening, each with
\* and without sentence boundaries.
AdjustTexts ==
    {[t EXCEPT !.dots = d] :
        t \in {DenseHeadText(n, h) : n \in AdjustLens, h \in AdjustHeads}
                  \cup {SparseHeadText(n, h) : n \in AdjustLens, h \in AdjustHeads},
        d \in AdjustDots}

\* remaining = available_tokens - current_tokens - header_tokens - 2: the
\* branch is entered with current_tokens + header_tokens + 100 <=
\* available_tokens, so it is at least 98.
AdjustRemaining == {98, 120, 200, 300}

\* The second argument of the trim inside the loop, without the cut.
AdjustTarget_NoCut(trimmed) == TextLen(trimmed)

\* len(trimmed) - 100
AdjustTarget(trimmed) == TextLen(trimmed) - 100

\* trimmed_tokens > remaining and len(trimmed) > 100
AdjustTest(trimmed, remaining) == Tokens(trimmed) > remaining /\ TextLen(trimmed) > 100

AdjustIdle ==
    /\ al_pc = "idle" /\ al_text = NoText /\ al_remaining = 0 /\ al_trimmed = NoText
    /\ al_iters = 0

\* The branch is entered with a chunk that does not fit: text_tokens >
\* remaining.
AdjustInit ==
    /\ al_pc = "trim"
    /\ al_text \in AdjustTexts
    /\ al_remaining \in AdjustRemaining
    /\ Tokens(al_text) > al_remaining
    /\ al_trimmed = NoText
    /\ al_iters = 0

\* estimated_chars and the first trim.
AdjustEnter ==
    /\ al_pc = "trim"
    /\ LET text_tokens == Tokens(al_text)
           estimated_chars ==
               IF text_tokens > 0 THEN (al_remaining * TextLen(al_text)) \div text_tokens
               ELSE al_remaining * 4
       IN  al_trimmed' = _trim_to_sentence_boundary(al_text, estimated_chars)
    /\ al_pc' = "loop"
    /\ UNCHANGED <<al_text, al_remaining, al_iters>>

\* One iteration of "while trimmed_tokens > remaining and len(trimmed) > 100".
AdjustStep ==
    /\ al_pc = "loop"
    /\ AdjustTest(al_trimmed, al_remaining)
    /\ al_trimmed' = _trim_to_sentence_boundary(al_trimmed, AdjustTarget(al_trimmed))
    /\ al_iters' = al_iters + 1
    /\ UNCHANGED <<al_pc, al_text, al_remaining>>

\* The while test fails.
AdjustExit ==
    /\ al_pc = "loop"
    /\ ~AdjustTest(al_trimmed, al_remaining)
    /\ al_pc' = "exit"
    /\ UNCHANGED <<al_text, al_remaining, al_trimmed, al_iters>>

\* ================================================================== claims

\* ---- reranker ----

IsPermutation(order, n) == Len(order) = n /\ Range(order) = 0..(n - 1)

\* C1: for every candidate list of length N and whatever index list the
\* relevance model returns, rerank returns a permutation of [0, N).
C1_RerankTotalPermutation ==
    rr_pc = "returned" => IsPermutation(rr_order, rr_n)

\* ---- hybrid merger ----

InputHits == mg_bm25 \o mg_knn

InputIds == {h.id : h \in Range(InputHits)}

BestScore(id) ==
    CHOOSE s \in Scores :
        /\ \E h \in Range(InputHits) : h.id = id /\ h.score = s
        /\ \A h \in Range(InputHits) : h.id = id => h.score <= s

Occurrences(out, id) == Cardinality({i \in 1..Len(out) : out[i].id = id})

SortedDesc(out) == \A i \in 1..(Len(out) - 1) : out[i].score >= out[i + 1].score

KeepsBest(out) == \A i \in 1..Len(out) : out[i].score = BestScore(out[i].id)

ExactlyOnce(out) == \A id \in InputIds : Occurrences(out, id) = 1

\* C10 (as stated): both merges contain each identifier of the two lists exactly
\* once, with the highest of its scores, sorted by score descending.
C10_MergeEachIdExactlyOnce ==
    mg_pc = "merged" =>
        /\ ExactlyOnce(mg_chunks) /\ KeepsBest(mg_chunks) /\ SortedDesc(mg_chunks)
        /\ ExactlyOnce(mg_rows) /\ KeepsBest(mg_rows) /\ SortedDesc(mg_rows)

\* C10 (amended): run_hybrid_search's merge contains each identifier exactly once;
\* _merge_table_results contains each identifier at most once and holds the
\* min(size, number of identifiers) best-scored ones; in both the retained entry
\* has the identifier's highest score and the output is sorted descending.
C10_MergeDedupBestSorted ==
    mg_pc = "merged" =>
        /\ ExactlyOnce(mg_chunks) /\ KeepsBest(mg_chunks) /\ SortedDesc(mg_chunks)
        /\ {h.id : h \in Range(mg_chunks)} = InputIds
        /\ \A id \in InputIds : Occurrences(mg_rows, id) <= 1
        /\ {h.id : h \in Range(mg_rows)} \subseteq InputIds
        /\ Len(mg_rows) = Min2(mg_size, Cardinality(InputIds))
        /\ KeepsBest(mg_rows) /\ SortedDesc(mg_rows)
        /\ \A id \in InputIds : Occurrences(mg_rows, id) = 0 =>
               \A i \in 1..Len(mg_rows) : mg_rows[i].score >= BestScore(id)

\* An identifier in both lists with different scores, and more identifiers than size.
C10_Witness ==
    /\ mg_pc = "merged"
    /\ \E b \in Range(mg_bm25), k \in Range(mg_knn) : b.id = k.id /\ b.score < k.score
    /\ Cardinality(InputIds) > mg_size
    /\ Len(mg_rows) = mg_size

\* ---- context builder ----

\* Tokens of the joined context string: headers and texts, and one token per
\* "\n\n" separator between sections.
SepTokens == 1

RECURSIVE SectionTokens(_)
SectionTokens(sections) ==
    IF sections = <<>> THEN 0
    ELSE sections[1].htokens + Tokens(sections[1].text) + SectionTokens(Tail(sections))

CtxTokens(ctx) ==
    SectionTokens(ctx.sections)
        + (IF Len(ctx.sections) > 1 THEN (Len(ctx.sections) - 1) * SepTokens ELSE 0)

\* C7: the token count of the context string returned by build_context is at
\* most MAX_CONTEXT_TOKENS - RESERVED_TOKENS, also with a trimmed last chunk.
C7_ContextWithinBudget ==
    (cx_pc = "built" /\ cx_tiktoken) =>
        CtxTokens(cx_ctx) <= MAX_CONTEXT_TOKENS - RESERVED_TOKENS

\* Offset of section k in the joined string, and the end of what the string keeps.
SectionStart(ctx, k) == JoinedLen(SubSeq(ctx.sections, 1, k - 1)) + (IF k > 1 THEN 2 ELSE 0)

VisibleEnd(ctx) == IF ctx.limit = -1 THEN JoinedLen(ctx.sections) ELSE ctx.limit

\* Section k's header is in the string whole and at least the start of its text is.
Appears(ctx, k) ==
    LET text_start == SectionStart(ctx, k) + ctx.sections[k].hlen
    IN  /\ text_start <= VisibleEnd(ctx)
        /\ TextLen(ctx.sections[k].text) > 0 => text_start < VisibleEnd(ctx)

AppearingIds(ctx) ==
    LET K == {k \in 1..Len(ctx.sections) : Appears(ctx, k)}
    IN  [i \in 1..Cardinality(K) |->
            ctx.sections[CHOOSE k \in K : Cardinality({j \in K : j < k}) = i - 1].chunk_id]

\* C8: a chunk is in selected_chunks iff its header and its text appear in the
\* context string, in the same order, on the token path and the character path.
C8_SelectedMatchesContext ==
    cx_pc = "built" =>
        [i \in 1..Len(cx_selected) |-> cx_selected[i].chunk_id] = AppearingIds(cx_ctx)

PageKey(c) == <<c.doc_id, c.page_number>>

FirstOfPage(chunks, key) ==
    chunks[CHOOSE j \in 1..Len(chunks) :
               /\ PageKey(chunks[j]) = key
               /\ \A k \in 1..(j - 1) : PageKey(chunks[k]) # key]

\* C9: the EvidenceSet holds no two chunks of one (doc_id, page_number) and no
\* two with one chunk_id; of the candidates sharing a page the first is kept.
C9_PageDiversity ==
    cx_pc = "built" =>
        /\ \A i, j \in 1..Len(cx_selected) :
               i # j => /\ PageKey(cx_selected[i]) # PageKey(cx_selected[j])
                        /\ cx_selected[i].chunk_id # cx_selected[j].chunk_id
        /\ \A i \in 1..Len(cx_selected) :
               cx_selected[i] = FirstOfPage(cx_chunks, PageKey(cx_selected[i]))

\* Two different candidates of one page were passed, and the page is in the set.
C9_Witness ==
    /\ cx_pc = "built"
    /\ \E i, j \in 1..Len(cx_chunks) :
           /\ i < j
           /\ cx_chunks[i].chunk_id # cx_chunks[j].chunk_id
           /\ PageKey(cx_chunks[i]) = PageKey(cx_chunks[j])
           /\ \E k \in 1..Len(cx_selected) : cx_selected[k] = cx_chunks[i]
    /\ Len(cx_selected) >= 2

\* ---- QA pipeline ----

\* A result reached the caller: answer_question returned, or the stream
\* yielded its done event.
Emitted == qa_pc = "done"

\* C2: a result emitted by answer_question or as the done event of
\* answer_question_stream whose answer is not the not-found sentence (a
\* positive answer) carries at least one citation.
C2_PositiveAnswerHasCitation ==
    (Emitted /\ qa_result.answer \in {POSITIVE, SEE_CITED}) =>
        Len(qa_result.citations) >= 1

\* C3: in every result returned by answer_question and every done event of
\* answer_question_stream, an answer that is the not-found sentence comes with
\* an empty citations list, whatever citations the generation output held.
C3_NotFoundHasNoCitations ==
    (Emitted /\ qa_result.answer = NOT_FOUND) => qa_result.citations = <<>>

\* The generation output said not-found and listed a citation of an evidence
\* page; the result was emitted, on the sync and on the streaming handler.
C3_Witness ==
    /\ Emitted
    /\ qa_result.answer = NOT_FOUND
    /\ qa_raw.answer = NOT_FOUND
    /\ Len(qa_raw.citations) >= 1
    /\ MatchIndex(qa_raw.citations[1], qa_selected) # 0
    /\ qa_result.path \in {"regex", "json"}

\* C4: in answer_question's repair step, on the strict path and on the regex
\* path, every citation whose (doc_id, page_number) is that of an EvidenceSet
\* entry and whose model-supplied bbox is missing or [0,0,0,0] ends with that
\* entry's bbox.
C4_RepairedBboxFromEvidence ==
    (Emitted /\ ~qa_stream /\ qa_result.path \in {"strict", "regex"}
        /\ ~StartsNotFound(qa_raw.answer) /\ qa_raw.citations # <<>>) =>
        \A i \in 1..Len(qa_raw.citations) :
            \A k \in 1..Len(qa_selected) :
                (/\ qa_raw.citations[i].doc_id = qa_selected[k].doc_id
                 /\ qa_raw.citations[i].page_number = qa_selected[k].page_number
                 /\ qa_raw.citations[i].bbox \in {<<>>, ZeroBbox})
                => qa_result.citations[i].bbox = qa_selected[k].bbox

\* A citation with the zero rectangle matched an evidence chunk that has a
\* bbox, on the regex path.
C4_Witness ==
    /\ Emitted /\ ~qa_stream /\ qa_result.path = "regex"
    /\ qa_raw.answer = POSITIVE
    /\ Len(qa_raw.citations) >= 1
    /\ qa_raw.citations[1].bbox = ZeroBbox
    /\ MatchIndex(qa_raw.citations[1], qa_selected) # 0
    /\ qa_selected[MatchIndex(qa_raw.citations[1], qa_selected)].bbox = Bbox1
    /\ qa_result.citations[1].bbox = Bbox1

\* C5: answer_question never lets an exception reach its caller.
C5_NoExceptionReachesCaller == ~qa_stream => qa_pc # "raised"

\* C6: a search branch that fails, in the chunk pipeline or the table-row
\* pipeline, contributes an empty hit list and the request goes on with the
\* hits of the other branch; the not-found result without generation is
\* produced only when there are no hits and no table chunks.
C6_FailedBranchContributesNothing ==
    [][ /\ (qa_pc = "branches" /\ qa_bm25.failed # qa_knn.failed) =>
               /\ qa_pc' = "searched"
               /\ qa_hits' = MergeHybrid(qa_bm25.hits, qa_knn.hits)
        /\ (qa_pc = "table_branches" /\ qa_bm25.failed # qa_knn.failed) =>
               /\ qa_pc' = "tabled"
               /\ LET merged == _merge_table_results(qa_bm25.hits, qa_knn.hits, 20)
                  IN  [i \in 1..Len(qa_table') |-> qa_table'[i].chunk_id]
                          = [i \in 1..Len(merged) |-> merged[i].id]
        /\ (qa_pc = "tabled" /\ qa_pc' = "done") =>
               (qa_hits = <<>> /\ qa_table = <<>>)
      ]_vars

\* What answer_question returns for the evidence and the generation output of
\* the running request.
SyncResultForSameInput == ParseAndRepair(qa_raw, qa_selected, TRUE, <<>>)

\* C11: for the same evidence and the same complete generation output, the
\* done event of answer_question_stream carries the answer and the citations
\* that answer_question returns.
C11_StreamDoneEqualsSync ==
    (qa_stream /\ qa_pc = "done" /\ qa_result.path # "early") =>
        /\ qa_result.answer = SyncResultForSameInput.answer
        /\ qa_result.citations = SyncResultForSameInput.citations

\* C12: for every generation output string the parse/repair step of
\* answer_question returns a result that has an answer (a string) and a
\* citations list; when both decode attempts fail the result is the
\* conservative fallback built from the EvidenceSet.
C12_ParseRepairAlwaysAnswers ==
    (~qa_stream /\ qa_pc = "done" /\ qa_result.path # "early") =>
        /\ qa_result.answer \notin {Missing, NonString}
        /\ \A i \in 1..Len(qa_result.citations) : qa_result.citations[i].dict
        /\ qa_raw.wrap = "text" => qa_result = ConservativeFallback(qa_selected)

\* C13: every citation snippet in a result returned by answer_question is at
\* most 240 characters long, whatever its length in the generation output.
C13_SnippetAtMost240 ==
    (~qa_stream /\ qa_pc = "done") =>
        \A i \in 1..Len(qa_result.citations) : qa_result.citations[i].snippet <= 240

\* C14: every citation bbox in a final QA result (returned by answer_question
\* or carried by the done event) is the bbox of an EvidenceSet entry with the
\* citation's (doc_id, page_number); a bbox supplied by the generation output
\* is never passed through.  (A citation without a bbox is not constrained.)
C14_BboxFromEvidenceOnly ==
    qa_pc = "done" =>
        \A i \in 1..Len(qa_result.citations) :
            (qa_result.citations[i].dict /\ qa_result.citations[i].bbox # <<>>) =>
                \E k \in 1..Len(qa_selected) :
                    /\ qa_selected[k].doc_id = qa_result.citations[i].doc_id
                    /\ qa_selected[k].page_number = qa_result.citations[i].page_number
                    /\ qa_selected[k].bbox = qa_result.citations[i].bbox

\* C15: when the relevance model is unconfigured (no credential), unreachable,
\* or its call or response handling raises, rerank returns the identity
\* permutation [0, 1, ..., N-1] of the N candidates.
C15_RerankIdentityOnFailure ==
    (rr_pc = "returned" /\ (~rr_has_key \/ rr_resp.raises \/ rr_provider # "cohere")) =>
        rr_order = RangeList(rr_n)

\* The provider is configured with a credential and its call raised, for a
\* list of at least two candidates.
C15_Witness ==
    /\ rr_pc = "returned"
    /\ rr_provider = "cohere" /\ rr_has_key /\ rr_resp.raises
    /\ rr_n >= 2
    /\ rr_order = RangeList(rr_n)

\* ---- filter builder ----

ClausesOf(k) == {i \in 1..Len(bf_clauses) : bf_clauses[i].field.key = k}

\* C16: build_filters produces exactly one clause per key whose value is not
\* null and none for a null value, a term clause for a scalar and a terms
\* clause for a list; an empty or absent dictionary yields no clause.
C16_OneClausePerNonNullKey ==
    bf_pc = "returned" =>
        /\ \A i \in 1..Len(bf_filters.items) :
               LET k == bf_filters.items[i].k
                   v == bf_filters.items[i].v
               IN  IF v.kind = "none" THEN ClausesOf(k) = {}
                   ELSE /\ Cardinality(ClausesOf(k)) = 1
                        /\ \A c \in ClausesOf(k) :
                               /\ bf_clauses[c].op = (IF v.kind = "list" THEN "terms" ELSE "term")
                               /\ bf_clauses[c].value = v.val
        /\ \A c \in 1..Len(bf_clauses) :
               \E i \in 1..Len(bf_filters.items) : bf_filters.items[i].k = bf_clauses[c].field.key
        /\ (~bf_filters.present \/ bf_filters.items = <<>>) => bf_clauses = <<>>

\* A dictionary with a null value and a falsy scalar gave exactly one clause.
C16_Witness ==
    /\ bf_pc = "returned"
    /\ \E i, j \in 1..Len(bf_filters.items) :
           /\ bf_filters.items[i].v.kind = "none"
           /\ bf_filters.items[j].v = [kind |-> "scalar", val |-> <<"">>]
    /\ Len(bf_clauses) = 1
    /\ bf_clauses[1].op = "term"

\* ---- query suggestions ----

\* The tested phrasings whose run returned at least one citation, in order.
RECURSIVE WorkingQueries(_)
WorkingQueries(tested) ==
    IF tested = <<>> THEN <<>>
    ELSE (IF ~Head(tested).run.raised /\ Len(Head(tested).run.citations) >= 1
          THEN <<Head(tested).query>> ELSE <<>>)
         \o WorkingQueries(Tail(tested))

OriginOf(c) ==
    IF c.chunk_id \in QaRowIds THEN QaRowDoc(c.chunk_id) ELSE QaChunkDoc(c.chunk_id)

KeepsOrigin(c) ==
    /\ c.doc_id = OriginOf(c).doc_id
    /\ c.page_number = OriginOf(c).page_number
    /\ c.bbox = OriginOf(c).bbox

\* C18: every chunk in the EvidenceSet carries the doc_id, page_number and
\* bbox of the search hit or table row it came from, through table-row
\* conversion, reranking, the cut to 15, deduplication and trimming.
C18_EvidenceKeepsOrigin ==
    /\ \A i \in 1..Len(qa_selected) : KeepsOrigin(qa_selected[i])
    /\ \A i \in 1..Len(qa_items) : KeepsOrigin(qa_items[i])
    /\ \A i \in 1..Len(qa_table) : KeepsOrigin(qa_table[i])

\* The EvidenceSet holds a table-row chunk ahead of a hit's chunk (reranked),
\* both long enough that the second one only fits trimmed.
C18_Witness ==
    /\ qa_pc = "context"
    /\ Len(qa_selected) = 2
    /\ qa_selected[1].chunk_id \in QaRowIds
    /\ qa_selected[2].chunk_id = 1
    /\ qa_selected[2].bbox = Bbox1
    /\ Tokens(qa_selected[1].text) + Tokens(qa_selected[2].text)
           > MAX_CONTEXT_TOKENS - RESERVED_TOKENS

\* The positions of a sentence terminator among the first max_chars characters.
TerminatorsBefore(text, max_chars) ==
    {p \in text.dots \cup text.stops : p < max_chars}

\* C19: a text longer than max_chars comes back cut just after its last
\* sentence terminator before the cutoff whenever that terminator lies not
\* more than 30% of max_chars before the cutoff, and as its first max_chars
\* characters followed by an ellipsis marker otherwise; a text of at most
\* max_chars characters comes back unchanged.
C19_TrimAtLastBoundaryWithin30 ==
    tr_pc = "done" =>
        IF TextLen(tr_text) <= tr_max THEN tr_out = tr_text
        ELSE LET marks == TerminatorsBefore(tr_text, tr_max)
                 last == SetMax(marks)
             IN  IF marks # {} /\ 10 * (tr_max - last) <= 3 * tr_max
                 THEN tr_out = Slice(tr_text, last + 1)
                 ELSE tr_out = [Slice(tr_text, tr_max) EXCEPT !.ell = TRUE]

\* Tokens the first k candidates take when each is put in whole.
RECURSIVE FullTokens(_, _)
FullTokens(candidates, k) ==
    IF k = 0 THEN 0
    ELSE FullTokens(candidates, k - 1)
             + HeaderTokens(k, candidates[k]) + Tokens(candidates[k].text) + 2

\* The first candidate that does not fit in full; Len + 1 when all fit.
FirstUnfit(candidates) ==
    LET K == {k \in 1..Len(candidates) :
                 FullTokens(candidates, k) > MAX_CONTEXT_TOKENS - RESERVED_TOKENS}
    IN  IF K = {} THEN Len(candidates) + 1
        ELSE CHOOSE k \in K : \A j \in K : k <= j

\* On the token path the candidates before the first one that does not fit in
\* full are the sections, whole, and that one alone may follow them, trimmed.
TokenPathPrefix ==
    LET candidates == _dedupe_and_limit(cx_chunks, 15)
        k == FirstUnfit(candidates)
        n == Len(cx_selected)
    IN  /\ n \in {k - 1, k}
        /\ \A i \in 1..n :
               /\ i < k => cx_ctx.sections[i].text = candidates[i].text
               /\ i = k => /\ cx_ctx.sections[i].text # candidates[i].text
                           /\ TextLen(cx_ctx.sections[i].text)
                                  <= TextLen(candidates[i].text)

RECURSIVE SumSeq(_)
SumSeq(q) == IF q = <<>> THEN 0 ELSE Head(q) + SumSeq(Tail(q))

\* C21: for any sequence of generation deltas the streaming reader completes
\* every step, last_answer_length never decreases, every chunk event carries
\* non-empty text, and after each step the lengths of the chunk contents
\* yielded so far add up to last_answer_length.
C21_ReaderMonotoneAndReconciled ==
    [][ /\ sr_last' >= sr_last
        /\ \A i \in 1..Len(sr_chunks') : sr_chunks'[i] >= 1
        /\ SumSeq(sr_chunks') = sr_last'
        /\ sr_pc = "reading" =>
               \A chunk \in Deltas :
                   LET r == ReadOne(sr_acc \o chunk, sr_last, sr_extracted, sr_chunks)
                   IN  r.last \in Nat /\ r.extracted \in Nat \cup {-1}
      ]_vars

\* The answer arrived in three deltas after its key, the second an escaped
\* quote: three chunk events were yielded, and their lengths add up to the
\* length of the unescaped answer, one less than that of the raw text.
C21_Witness ==
    /\ sr_pc = "read"
    /\ sr_steps = 4
    /\ sr_acc = <<"Q", "A", "Q", "C", "Q", "x", "x", "B", "Q", "x">>
    /\ sr_chunks = <<2, 1, 1>>
    /\ sr_last = 4
    /\ sr_extracted = 4

\* ---- stream events ----

TerminalEvents == {"done", "error"}

TerminalCount(events) ==
    Cardinality({i \in 1..Len(events) : events[i] \in TerminalEvents})

\* C22: a run of answer_question_stream yields exactly one terminal event,
\* done or error, and nothing after it: status and chunk events come only
\* before it, a failure at any stage ends the run with the error event and no
\* exception leaves the generator.
C22_OneTerminalEventLast ==
    [][ qa_stream' =>
          /\ \A i \in 1..Len(qa_events') :
                 qa_events'[i] \in TerminalEvents \cup {"status", "chunk"}
          /\ TerminalCount(qa_events') <= 1
          /\ \A i \in 1..Len(qa_events') :
                 qa_events'[i] \in TerminalEvents => i = Len(qa_events')
          /\ (qa_pc' \in {"done", "error"}) <=>
                 (qa_events' # <<>> /\ qa_events'[Len(qa_events')] = qa_pc')
          /\ (qa_pc \in {"done", "error"}) => qa_events' = qa_events
          /\ qa_pc' \in {"embedded", "branches", "searched", "table_branches",
                         "tabled", "reranked", "context", "done", "error"}
      ]_vars

\* Generation broke off after a chunk event: the stream ended with error.
C22_Witness ==
    /\ qa_stream /\ qa_pc = "error"
    /\ qa_events = <<"status", "status", "status", "chunk", "error">>

\* ---- nested requests ----

HandlerFrames(stack) == {i \in 1..Len(stack) : stack[i].fn # "find_working_suggestions"}

\* C23: a top-level request invokes find_working_suggestions at most once;
\* the engine runs the pipeline at most max_to_test times, one run at a time;
\* a nested run never invokes the engine, so handlers nest at most one deep;
\* and the request ends.
C23_SuggestionSearchBounded ==
    /\ [](/\ nq_engine <= 1
          /\ nq_runs <= MAX_TO_TEST
          /\ Len(nq_tested) <= nq_runs
          /\ Len(nq_tested) >= nq_runs - 1
          /\ Cardinality(HandlerFrames(nq_stack)) <= 2
          /\ Len(nq_stack) <= 3
          /\ \A i \in HandlerFrames(nq_stack) :
                 i > 1 => (~nq_stack[i].enable /\ nq_stack[i].pc = "start"))
    /\ <>(nq_stack = <<>> /\ nq_out \in PipelineOutcomes)

\* The request ended not-found after one suggestion search that ran the
\* pipeline max_to_test times, each nested run itself answering not-found.
C23_Witness ==
    /\ nq_stack = <<>>
    /\ nq_out = "not_found"
    /\ nq_engine = 1
    /\ nq_runs = MAX_TO_TEST
    /\ nq_tested = <<"not_found", "not_found", "not_found">>

\* ---- suggestions on not-found ----

\* The stream yielded its "Finding alternative queries..." status: a fourth
\* status event, the one that precedes the call of find_working_suggestions.
SearchAnnounced ==
    qa_stream /\ Cardinality({i \in 1..Len(qa_events) : qa_events[i] = "status"}) = 4

\* C24: find_working_suggestions is invoked, and a suggestions list attached
\* to a result, only when the declared answer is the not-found sentence; a
\* result with any other answer neither triggered the search nor carries
\* suggestions.
C24_SuggestionsOnlyOnNotFound ==
    Emitted =>
        /\ qa_result.suggestions # <<>> => qa_result.answer = NOT_FOUND
        /\ SearchAnnounced => qa_result.answer = NOT_FOUND

\* ---- TOC router ----

\* The groups the query matched: one of the group's words is in the query.
MatchedGroups(query) ==
    {g \in 1..Len(triggers) :
        \E k \in 1..Len(triggers[g].words) : InText(triggers[g].words[k], query)}

\* The title contains one of the keywords of a group the query matched.
TitleInMatchedGroup(query, title) ==
    \E g \in MatchedGroups(query) :
        \E k \in 1..Len(triggers[g].words) : InText(triggers[g].words[k], title)

RECURSIVE KeptByGroup(_, _)
KeptByGroup(query, rows) ==
    IF rows = <<>> THEN <<>>
    ELSE (IF TitleInMatchedGroup(query, Head(rows).title)
          THEN <<[doc_id |-> Head(rows).doc_id, page_start |-> Head(rows).page_start,
                  page_end |-> Head(rows).page_end]>>
          ELSE <<>>)
         \o KeptByGroup(query, Tail(rows))

\* C25: when the query matches a trigger group, guess_toc_ranges keeps a
\* table-of-contents entry iff its title contains one of the keywords of a
\* trigger group the query matched (the lookup succeeding); when the query
\* matches no group it returns no ranges and performs no lookup.
C25_KeepsEntriesOfMatchedGroups ==
    rt_pc = "returned" =>
        IF MatchedGroups(rt_query) = {}
        THEN rt_out = <<>> /\ rt_lookups = 0
        ELSE rt_db_ok => rt_out = KeptByGroup(rt_query, rt_rows)

\* ---- vector search ----

\* C26: when the k-NN query raises and the engine answers the fallback query,
\* run_vector_search returns: it has fetched at most min(5*size, 500)
\* documents, all matching the filter; every returned hit is a fetched document
\* scored by its cosine similarity to the query vector (0 without a vector);
\* at most size hits are returned and no hit is followed by a hit with a higher
\* score.
C26_FallbackRanksByCosine ==
    (vs_pc \in {"returned", "raised"} /\ ~vs_knn_ok /\ vs_fetch_ok) =>
        /\ vs_pc = "returned"
        /\ Len(vs_fetched) <= Min2(5 * vs_size, 500)
        /\ \A i \in 1..Len(vs_fetched) : vs_index[vs_fetched[i].id].matches
        /\ Len(vs_out) <= vs_size
        /\ \A i \in 1..Len(vs_out) :
              /\ \E k \in 1..Len(vs_fetched) : vs_fetched[k].id = vs_out[i].id
              /\ vs_out[i].vector = NoVector => vs_out[i].score = Float(0)
        /\ \A i, j \in 1..Len(vs_out) :
              i < j => ~ISLT(vs_out[i].score, vs_out[j].score)

\* ---- retrying clients ----

PostIndexes == {i \in 1..Len(rc_log) : rc_log[i].kind = "post"}

SleepIndexes == {i \in 1..Len(rc_log) : rc_log[i].kind = "sleep"}

\* What does not depend on how a 200 response is read: at most retry+1
\* attempts; a wait after every attempt but the last, and only there, with a
\* delay that grows; after retry+1 failed attempts a RuntimeError with the
\* last error.
RetryShape ==
    /\ Cardinality(PostIndexes) <= rc_retry + 1
    /\ \A i \in PostIndexes :
          i < Len(rc_log) => rc_log[i + 1].kind = "sleep"
    /\ \A i \in SleepIndexes : i > 1 /\ rc_log[i - 1].kind = "post"
    /\ \A i, j \in SleepIndexes : i < j => rc_log[i].delay < rc_log[j].delay
    /\ rc_pc \in {"returned", "raised"} =>
          /\ rc_log # <<>>
          /\ rc_log[Len(rc_log)].kind = "post"
    /\ rc_pc = "returned" => rc_raised = NoError
    /\ rc_pc = "raised" =>
          /\ Cardinality(PostIndexes) = rc_retry + 1
          /\ \A i \in PostIndexes : rc_log[i].outcome # "ok"
          /\ rc_raised = FailedAfter(rc_retry, ErrorOf(rc_log[Len(rc_log)].outcome))
    /\ rc_pc \in {"loop", "sleeping"} => rc_raised = NoError

\* C27 as stated: the shape above, and the call returns at the first HTTP 200
\* response and makes no further attempt.
C27_ReturnsAtFirst200 ==
    /\ RetryShape
    /\ \A i \in PostIndexes :
          Status200(rc_log[i].outcome) => i = Len(rc_log) /\ rc_pc = "returned"
    /\ rc_pc = "returned" => Status200(rc_log[Len(rc_log)].outcome)

\* C27, amended: the shape above, and the call returns at the first HTTP 200
\* response whose body decodes to the expected fields and makes no further
\* attempt; a 200 response whose body does not decode counts as a failed
\* attempt.
C27_ReturnsAtFirstDecoded200 ==
    /\ RetryShape
    /\ \A i \in PostIndexes :
          rc_log[i].outcome = "ok" => i = Len(rc_log) /\ rc_pc = "returned"
    /\ rc_pc = "returned" => rc_log[Len(rc_log)].outcome = "ok"

\* Two attempts failed, one of them with an undecodable 200 response, two
\* growing waits were made, and the third attempt returned.
C27_Witness ==
    /\ rc_pc = "returned"
    /\ rc_retry = 2
    /\ Len(rc_log) = 5
    /\ rc_log[1].outcome = "http_error"
    /\ rc_log[3].outcome = "bad_body"
    /\ rc_log[2].delay < rc_log[4].delay

\* ---- ingestion job ----

Lifecycles ==
    {<<"pending">>, <<"pending", "processing">>,
     <<"pending", "processing", "completed">>, <<"pending", "processing", "failed">>}

\* C28: the status moves along pending -> processing -> completed or failed
\* and leaves neither completed nor failed; it is completed only when every
\* ingestion step returned normally with a non-empty chunk list; when the task
\* has ended after an exception or an empty chunk list it is failed.
C28_StatusLifecycle ==
    /\ ig_hist \in Lifecycles
    /\ ig_status = "completed" =>
          /\ IngestionSteps(Program(ig_vision, ig_unstructured)) \subseteq ig_calls
          /\ ~ig_empty
    /\ (ig_at = "done" /\ (ig_raised # {} \/ ig_empty)) => ig_status = "failed"

C30_AdjustLoopTerminates ==
    /\ [][(al_pc = "loop" /\ al_pc' = "loop") =>
              TextLen(al_trimmed') < TextLen(al_trimmed)]_vars
    /\ [](al_pc = "exit" =>
              Tokens(al_trimmed) <= al_remaining \/ TextLen(al_trimmed) <= 100)
    /\ <>(al_pc = "exit")

\* The loop was left after two iterations by its length clause, the text
\* still above the remaining tokens.
C30_Witness ==
    /\ al_pc = "exit"
    /\ al_iters >= 2
    /\ TextLen(al_trimmed) <= 100
    /\ Tokens(al_trimmed) > al_remaining

\* ========================================================== specifications

\* Every component but the one a specification runs is idle.
OthersIdle(running) ==
    /\ "rerank" \in running \/ RerankIdle
    /\ "merge" \in running \/ MergeIdle
    /\ "ctx" \in running \/ CtxIdle
    /\ "qa" \in running \/ QaIdle
    /\ "filters" \in running \/ FiltersIdle
    /\ "suggest" \in running \/ SuggestIdle
    /\ "trim" \in running \/ TrimIdle
    /\ "reader" \in running \/ ReaderIdle
    /\ "nest" \in running \/ NestIdle
    /\ "router" \in running \/ RouterIdle
    /\ "vector" \in running \/ VectorIdle
    /\ "retry" \in running \/ RetryIdle
    /\ "ingest" \in running \/ IngestIdle
    /\ "adjust" \in running \/ AdjustIdle

InitRerank == RerankInit /\ OthersIdle({"rerank"})

NextRerank == RerankCall /\ UNCHANGED NotRerank

SpecRerank == InitRerank /\ [][NextRerank]_vars

InitMerge == MergeInit /\ OthersIdle({"merge"})

NextMerge == MergeCall /\ UNCHANGED NotMerge

SpecMerge == InitMerge /\ [][NextMerge]_vars

InitCtx == CtxInit /\ OthersIdle({"ctx"})

NextCtx == CtxCall /\ UNCHANGED NotCtx

SpecCtx == InitCtx /\ [][NextCtx]_vars

InitQA == QaInit /\ OthersIdle({"qa"})

NextQA ==
    \/ QaEmbed
    \/ QaSearchBranches
    \/ QaSearchJoin
    \/ QaTableSkipped
    \/ QaTableBranches
    \/ QaTableJoin
    \/ QaNotFound
    \/ QaRerank
    \/ QaContext
    \/ QaGenerateFails
    \/ QaAnswer
    \/ QaStreamAnswer

SpecQA == InitQA /\ [][NextQA]_vars


InitFilters == FiltersInit /\ OthersIdle({"filters"})

NextFilters == FiltersCall /\ UNCHANGED NotFilters

SpecFilters == InitFilters /\ [][NextFilters]_vars


InitSuggest == SuggestInit /\ OthersIdle({"suggest"})

NextSuggest ==
    \/ SgGenerate
    \/ SgTest
    \/ SgReturn

SpecSuggest == InitSuggest /\ [][NextSuggest]_vars

InitTrim == TrimInit /\ OthersIdle({"trim"})

NextTrim == TrimCall /\ UNCHANGED NotTrim

SpecTrim == InitTrim /\ [][NextTrim]_vars

InitReader == ReaderInit /\ OthersIdle({"reader"})

NextReader ==
    \/ ReadDelta
    \/ ReadEnd

SpecReader == InitReader /\ [][NextReader]_vars

InitNest == NestInit /\ OthersIdle({"nest"})

NextNest ==
    \/ NqPipeline
    \/ NqGenerate
    \/ NqTest
    \/ NqEngineReturn
    \/ NqFinish

SpecNest == InitNest /\ [][NextNest]_vars

\* Every call runs on: the handlers are sequential code whose outside calls
\* return or raise.
SpecNestFair == SpecNest /\ WF_vars(NextNest)

InitRouter == RouterInit /\ OthersIdle({"router"})

NextRouter == RouterCall /\ UNCHANGED NotRouter

SpecRouter == InitRouter /\ [][NextRouter]_vars

InitVector == VectorInit /\ OthersIdle({"vector"})

NextVector == VectorSearchCall /\ UNCHANGED NotVector

SpecVector == InitVector /\ [][NextVector]_vars

InitRetry == RetryInit /\ OthersIdle({"retry"})

NextRetry ==
    \/ RetryAttempt /\ UNCHANGED NotRetry
    \/ RetryWake /\ UNCHANGED NotRetry

SpecRetry == InitRetry /\ [][NextRetry]_vars

InitIngest == IngestInit /\ OthersIdle({"ingest"})

NextIngest ==
    \/ IngestAssign /\ UNCHANGED NotIngest
    \/ IngestCall /\ UNCHANGED NotIngest
    \/ IngestEmptyStatus /\ UNCHANGED NotIngest
    \/ IngestEmptyError /\ UNCHANGED NotIngest
    \/ IngestFinally /\ UNCHANGED NotIngest
    \/ IngestExceptStatus /\ UNCHANGED NotIngest
    \/ IngestExceptError /\ UNCHANGED NotIngest
    \/ ReadStatus /\ UNCHANGED NotIngest
    \/ ReadProgress /\ UNCHANGED NotIngest
    \/ ReadError /\ UNCHANGED NotIngest

SpecIngest == InitIngest /\ [][NextIngest]_vars

InitAdjust == AdjustInit /\ OthersIdle({"adjust"})

NextAdjust ==
    \/ AdjustEnter /\ UNCHANGED NotAdjust
    \/ AdjustStep /\ UNCHANGED NotAdjust
    \/ AdjustExit /\ UNCHANGED NotAdjust

SpecAdjust == InitAdjust /\ [][NextAdjust]_vars

\* The loop runs in the request's thread, which is not suspended for ever.
SpecAdjustFair == SpecAdjust /\ WF_vars(NextAdjust)

====
